---- MODULE Spec2Model ----
(***************************************************************************)
(* A model of the multimodal RAG demo: the authorization resolver          *)
(* (get_user_permissions.py), the authenticated front end                  *)
(* (mmrag_app_with_auth.py), the index manager (opensearch_utils.py) and   *)
(* the ingestion pipeline (document_parser.py).                            *)
(*                                                                         *)
(* Strings that the code takes apart (document keys and index sources,     *)
(* matched with Python's `in`) are sequences of character codes; strings   *)
(* the code only compares are TLA+ strings.                                *)
(***************************************************************************)
EXTENDS Integers, Sequences, FiniteSets, TLC

VARIABLES
    \* ---- get_user_permissions call frame (get_user_permissions.py)
    perm,
    \* ---- st.session_state of mmrag_app_with_auth.py
    authenticated, username, access_token, refresh_token, authorized_docs,
    \* ---- the DynamoDB table content_permission and the last page render
    grants, render,
    \* ---- the OpenSearch index multimodal_index, and a combined_search call frame
    index, fillerCount, search,
    \* ---- a rerank_results call frame (opensearch_utils.py)
    rerank,
    \* ---- call frames of _process_image and process_pdf (document_parser.py)
    img, pdf,
    \* ---- the runs of process_file on one source file (document_parser.py)
    ingest,
    \* ---- a process_all_files call frame (document_parser.py)
    batch,
    \* ---- the indices of the OpenSearch domain and a sequence of
    \* ---- OpenSearchManager calls (opensearch_utils.py)
    admin

permVars == <<perm>>
sessionVars == <<authenticated, username, access_token, refresh_token, authorized_docs>>
appVars == <<authenticated, username, access_token, refresh_token, authorized_docs,
             grants, render>>
indexVars == <<index, fillerCount>>
frameVars == <<perm, search, rerank, img, pdf, ingest, batch, admin>>
vars == <<perm, authenticated, username, access_token, refresh_token, authorized_docs,
          grants, render, index, fillerCount, search, rerank, img, pdf, ingest, batch, admin>>

(***************************************************************************)
(* Generic helpers.                                                        *)
(***************************************************************************)
Range(s) == {s[i] : i \in 1..Len(s)}

RECURSIVE Concat(_)
\* items.extend(...) over all pages, in page order
Concat(ss) == IF ss = <<>> THEN <<>> ELSE Head(ss) \o Concat(Tail(ss))

\* Python's  doc in source  on str: doc is a contiguous substring of source
IsSubstring(doc, source) ==
    \E i \in 1..(Len(source) - Len(doc) + 1) :
        SubSeq(source, i, i + Len(doc) - 1) = doc

Star == <<42>>      \* "*"
KeyA == <<97>>      \* "a"
KeyB == <<98>>      \* "b"
KeyAB == <<97, 98>> \* "ab"

(***************************************************************************)
(* Bounds.                                                                 *)
(***************************************************************************)
MaxPages == 2

(***************************************************************************)
(* get_user_permissions.py                                                 *)
(*                                                                         *)
(* A DynamoDB item is a record of attribute descriptions:                  *)
(*   hasDoc, hasUsers : the attribute is present ('doc' in item)           *)
(*   docS             : item['doc'] has the 'S' member; doc is its value   *)
(*   usersL           : item['users'] has the 'L' member; users is the list*)
(* and a member of the users list is [hasS, S].                            *)
(***************************************************************************)
UserItem(u) == [hasS |-> TRUE, S |-> u]
NoStringItem == [hasS |-> FALSE, S |-> ""]

Grant(key, userList) ==
    [hasDoc |-> TRUE, docS |-> TRUE, doc |-> key,
     hasUsers |-> TRUE, usersL |-> TRUE, users |-> userList]

\* line 41: the guard of the per-item block
ItemConsidered(item) == item.hasUsers /\ item.hasDoc

\* lines 43 and 46: item['doc']['S'] and item['users']['L'] raise KeyError
ItemRaises(item) == ItemConsidered(item) /\ (~item.docS \/ ~item.usersL)

\* lines 47-50: some member of the users list is {'S': username}
ItemListsUser(item, u) ==
    \E i \in 1..Len(item.users) : item.users[i].hasS /\ item.users[i].S = u

RECURSIVE CollectDocs(_, _)
\* lines 39-50 on items none of which raises: docs, in scan order
CollectDocs(items, u) ==
    IF items = <<>> THEN <<>>
    ELSE LET item == Head(items)
             rest == CollectDocs(Tail(items), u)
         IN  IF ItemConsidered(item) /\ ItemListsUser(item, u)
             THEN <<item.doc>> \o rest
             ELSE rest

\* lines 58-60 with the check made on the first collected key only
WildcardFirstOnly(docs) == docs # <<>> /\ docs[1] = Star

\* line 58: '*' in docs
HasWildcard(docs) == \E i \in 1..Len(docs) : docs[i] = Star

\* lines 19-70 with the except branch returning what the pages read before
\* the failure grant
GetUserPermissionsPartial(u, pages, failAt) ==
    LET read == IF failAt = 0 THEN pages ELSE SubSeq(pages, 1, failAt - 1)
        items == Concat(read)
    IN  IF \E i \in 1..Len(items) : ItemRaises(items[i]) THEN <<>>
        ELSE LET docs == CollectDocs(items, u)
             IN  IF docs = <<>> THEN <<>>
                 ELSE IF HasWildcard(docs) THEN <<Star>>
                 ELSE docs

\* lines 19-70.  pages: the Items of the successive scan responses (the first
\* scan and one per LastEvaluatedKey); failAt: the scan that raises, 0 for none.
GetUserPermissions(u, pages, failAt) ==
    IF failAt # 0 THEN <<>>                                  \* lines 65-70
    ELSE LET items == Concat(pages)
         IN  IF \E i \in 1..Len(items) : ItemRaises(items[i])
             THEN <<>>                                       \* lines 65-70
             ELSE LET docs == CollectDocs(items, u)
                  IN  IF docs = <<>> THEN <<>>               \* lines 53-55
                      ELSE IF HasWildcard(docs) THEN <<Star>> \* lines 58-60
                      ELSE docs                              \* line 63

(***************************************************************************)
(* The resolver on its own: inputs drawn at Init, one call.                *)
(***************************************************************************)
PermUsers == {"alice", "bob"}

ItemChoices ==
    { Grant(Star, <<UserItem("alice")>>),
      Grant(Star, <<UserItem("bob")>>),
      Grant(KeyA, <<UserItem("alice")>>),
      Grant(KeyA, <<UserItem("bob")>>),
      Grant(KeyB, <<UserItem("bob"), UserItem("alice")>>),
      Grant(KeyB, <<NoStringItem, UserItem("alice")>>),
      Grant(KeyB, <<>>),
      \* no users attribute
      [hasDoc |-> TRUE, docS |-> TRUE, doc |-> KeyB,
       hasUsers |-> FALSE, usersL |-> FALSE, users |-> <<>>],
      \* doc stored with another attribute type than S
      [hasDoc |-> TRUE, docS |-> FALSE, doc |-> <<>>,
       hasUsers |-> TRUE, usersL |-> TRUE, users |-> <<UserItem("alice")>>],
      \* users stored as a string set (SS), not a list
      [hasDoc |-> TRUE, docS |-> TRUE, doc |-> KeyA,
       hasUsers |-> TRUE, usersL |-> FALSE, users |-> <<>>] }

PageChoices ==
    {<<>>} \cup {<<i>> : i \in ItemChoices}
           \cup {<<Grant(KeyA, <<UserItem("alice")>>), i>> : i \in ItemChoices}

PagesChoices == UNION {[1..n -> PageChoices] : n \in 1..MaxPages}

PermIdle == perm = [pc |-> "idle"]

PermInit ==
    \E u \in PermUsers, pages \in PagesChoices :
        \E failAt \in 0..Len(pages) :
            perm = [pc |-> "call", username |-> u, pages |-> pages,
                    failAt |-> failAt, ret |-> <<>>]

GetUserPermissionsCall ==
    /\ perm.pc = "call"
    /\ perm' = [perm EXCEPT !.pc = "done",
                            !.ret = GetUserPermissions(perm.username, perm.pages,
                                                       perm.failAt)]

(***************************************************************************)
(* The index store.  index holds the documents of multimodal_index that    *)
(* the model tells apart; fillerCount further sources "0<i>", one document *)
(* each, stand for the rest of a large index.                              *)
(***************************************************************************)
AggSize == 1000     \* "size": 1000 of the terms aggregation
TextK == 3          \* the text_k slider's default
ImageK == 2         \* the image_k slider's default

Doc(id, source, type) == [id |-> id, source |-> source, document_type |-> type]

NamedDocs ==
    { Doc(1, KeyA, "pdf"), Doc(2, KeyA, "image"),
      Doc(3, KeyAB, "pdf"), Doc(4, KeyB, "image") }

FillerSource(i) == <<48, 1000 + i>>
FillerDoc(i) == Doc(1000 + i, FillerSource(i), "txt")

\* every distinct value of the source field in the index
DistinctSources(idx, filler) ==
    {d.source : d \in idx} \cup {FillerSource(i) : i \in 1..filler}

DocCount(idx, source) == Cardinality({d \in idx : d.source = source})

RECURSIVE KeyLess(_, _)
\* the order of keyword terms: lexicographic on character codes
KeyLess(s, t) ==
    IF t = <<>> THEN FALSE
    ELSE IF s = <<>> THEN TRUE
    ELSE IF Head(s) # Head(t) THEN Head(s) < Head(t)
    ELSE KeyLess(Tail(s), Tail(t))

\* the default order of a terms aggregation: doc_count descending, then key
BucketBefore(idx, s, t) ==
    \/ DocCount(idx, s) > DocCount(idx, t)
    \/ DocCount(idx, s) = DocCount(idx, t) /\ KeyLess(s, t)

RECURSIVE SortBuckets(_, _)
SortBuckets(idx, S) ==
    IF S = {} THEN <<>>
    ELSE LET first == CHOOSE s \in S : \A t \in S \ {s} : BucketBefore(idx, s, t)
         IN  <<first>> \o SortBuckets(idx, S \ {first})

\* All buckets of the aggregation on source, in order.  A filler source has
\* one document and a key below every named key, so the fillers stand between
\* the named sources with more than one document and those with one.
Buckets(idx, filler) ==
    SortBuckets(idx, {d.source : d \in {e \in idx : DocCount(idx, e.source) > 1}})
    \o [i \in 1..filler |-> FillerSource(i)]
    \o SortBuckets(idx, {d.source : d \in {e \in idx : DocCount(idx, e.source) = 1}})

Take(s, n) == SubSeq(s, 1, IF Len(s) < n THEN Len(s) ELSE n)

\* OpenSearchManager.get_all_sources; mode is what the store does in this call
GetAllSources(idx, filler, mode) ==
    IF mode = "no_client" THEN <<>>                      \* lines 514-515
    ELSE IF mode = "agg_raises" THEN <<>>                \* lines 548-550
    ELSE Take(Buckets(idx, filler), AggSize)             \* lines 522-546

\* the index store requests get_all_sources issues
AggRequests(mode) == IF mode = "no_client" THEN <<>> ELSE <<"aggregate">>

(***************************************************************************)
(* mmrag_app_with_auth.combined_search                                     *)
(***************************************************************************)
\* lines 112-118: some authorized key is a substring of the source
SourceMatches(source, docs) == \E i \in 1..Len(docs) : IsSubstring(docs[i], source)

\* lines 104-127: the session's authorized_docs are strings (login_form stores
\* what get_user_permissions returns), so the str branch is the one taken
FilterSources(docs, available) ==
    IF docs = <<Star>> THEN available
    ELSE SelectSeq(available, LAMBDA s : SourceMatches(s, docs))

RECURSIVE SeqById(_)
SeqById(S) ==
    IF S = {} THEN <<>>
    ELSE LET d == CHOOSE x \in S : \A y \in S : x.id <= y.id
         IN  <<d>> \o SeqById(S \ {d})

InFilter(d, filter) == \E i \in 1..Len(filter) : filter[i] = d.source

\* The documents a k-NN query may rank: the named ones and, of the fillers,
\* the first and the last.
Rankable(idx, filler) ==
    idx \cup (IF filler > 0 THEN {FillerDoc(1), FillerDoc(filler)} ELSE {})

\* combined_search.combined_search(query, ..., filter_condition): each query
\* restricted to the permitted sources by the terms filter, the image query
\* also to document_type = image.  relevant: the documents nearest the query.
Cs(filter, relevant, mode) ==
    IF mode = "search_raises"
    THEN [text |-> <<>>, image |-> <<>>, requests |-> <<"search">>]
    ELSE [text |-> Take(SeqById({d \in relevant : InFilter(d, filter)}), TextK),
          image |-> Take(SeqById({d \in relevant : /\ InFilter(d, filter)
                                                   /\ d.document_type = "image"}),
                         ImageK),
          requests |-> <<"search", "search">>]

NoResults(requests) ==
    [text |-> <<>>, image |-> <<>>, requests |-> requests,
     filter |-> <<>>, searched |-> FALSE]

\* lines 90-92 with the guard left out
NoAuthorizedDocsNever(docs) == FALSE

\* line 90: not authorized_docs
NoAuthorizedDocs(docs) == docs = <<>>

\* lines 86-156 with the test of lines 129-131 left out
CombinedSearchUnguarded(docs, idx, filler, mode, relevant) ==
    IF NoAuthorizedDocs(docs) THEN NoResults(<<>>)
    ELSE LET available == GetAllSources(idx, filler, mode)
             filter_sources == FilterSources(docs, available)
             found == Cs(filter_sources, relevant, mode)
         IN  [text |-> found.text, image |-> found.image,
              requests |-> AggRequests(mode) \o found.requests,
              filter |-> filter_sources, searched |-> TRUE]

\* lines 86-156
CombinedSearch(docs, idx, filler, mode, relevant) ==
    IF NoAuthorizedDocs(docs) THEN NoResults(<<>>)                \* lines 90-92
    ELSE LET available == GetAllSources(idx, filler, mode)        \* line 97
             filter_sources == FilterSources(docs, available)     \* lines 104-127
             found == Cs(filter_sources, relevant, mode)          \* line 148
         IN  IF filter_sources = <<>>
             THEN NoResults(AggRequests(mode))                    \* lines 129-131
             ELSE [text |-> found.text, image |-> found.image,
                   requests |-> AggRequests(mode) \o found.requests,
                   filter |-> filter_sources, searched |-> TRUE]

(***************************************************************************)
(* combined_search on its own: the session's authorized_docs, the index    *)
(* and the store's behaviour drawn at Init, one call.                      *)
(***************************************************************************)
AuthChoices ==
    { <<>>, <<Star>>, <<KeyA>>, <<KeyB>>, <<KeyAB>>, <<KeyB, KeyA>>, <<<<98, 97>>>> }

StoreModes == {"ok", "no_client", "agg_raises", "search_raises"}

FillerChoices == {0, AggSize}

SearchIdle == search = [pc |-> "idle"]

SearchInit ==
    /\ authorized_docs \in AuthChoices
    /\ index \in SUBSET NamedDocs
    /\ fillerCount \in FillerChoices
    /\ \E mode \in StoreModes :
          search = [pc |-> "call", mode |-> mode, out |-> NoResults(<<>>)]

CombinedSearchCall ==
    /\ search.pc = "call"
    /\ \E relevant \in SUBSET Rankable(index, fillerCount) :
          search' = [search EXCEPT
                        !.pc = "done",
                        !.out = CombinedSearch(authorized_docs, index, fillerCount,
                                               search.mode, relevant)]

(***************************************************************************)
(* The authenticated front end: st.session_state, the login form, logout   *)
(* and the search branch of main().  grants is the table                   *)
(* content_permission, written through PermissionManager.                  *)
(***************************************************************************)
AppUsers == {"alice", "Admin"}
AppKeys == {KeyA, Star}
None == "None"

\* str.lower() on the user names of the model
Lower(u) == IF u = "Admin" THEN "admin" ELSE u

RECURSIVE UsersList(_)
\* the L attribute that put_item stores for a list of user names
UsersList(S) ==
    IF S = {} THEN <<>>
    ELSE LET u == CHOOSE x \in S : TRUE
         IN  <<UserItem(u)>> \o UsersList(S \ {u})

\* the scan of the table: one item to a page, the wildcard item last
TablePages(g) ==
    LET items == (IF g[KeyA] # {} THEN <<Grant(KeyA, UsersList(g[KeyA]))>> ELSE <<>>)
                 \o (IF g[Star] # {} THEN <<Grant(Star, UsersList(g[Star]))>> ELSE <<>>)
    IN  IF items = <<>> THEN << <<>> >>
        ELSE [i \in 1..Len(items) |-> <<items[i]>>]

LoginPage == [page |-> "login", lookup |-> "none", out |-> NoResults(<<>>)]

\* lines 43-52
SessionInit ==
    /\ authenticated = FALSE
    /\ username = None
    /\ access_token = None
    /\ refresh_token = None
    /\ authorized_docs = <<>>

\* lines 225-232: what login_form stores for the looked-up permissions
LoginFallback(u, docs) ==
    IF docs = <<>>
    THEN IF Lower(u) = "admin" THEN <<Star>> ELSE <<>>
    ELSE docs

\* login_form, lines 209-246: the form submitted with a user name and a
\* password; userExists is Cognito's answer, failAt the scan that raises
LoginSubmit ==
    /\ ~authenticated                                           \* lines 260-262
    /\ \E u \in AppUsers, userExists \in BOOLEAN :
       \E failAt \in 0..Len(TablePages(grants)) :
          IF userExists
          THEN /\ authenticated' = TRUE
               /\ username' = u
               /\ access_token' = "mock-access-token"
               /\ refresh_token' = "mock-refresh-token"
               /\ authorized_docs' =
                      LoginFallback(u, GetUserPermissions(u, TablePages(grants), failAt))
               /\ render' = [page |-> "main",
                             lookup |-> IF failAt # 0 THEN "error" ELSE "ok",
                             out |-> NoResults(<<>>)]
          ELSE /\ UNCHANGED sessionVars
               /\ render' = [LoginPage EXCEPT !.page = "login_error"]
    /\ UNCHANGED <<grants, frameVars, indexVars>>

\* lines 248-255 without line 254: the authorized documents stay
LogoutKeepsAuthorizedDocs ==
    /\ authenticated
    /\ authenticated' = FALSE
    /\ username' = None
    /\ access_token' = None
    /\ refresh_token' = None
    /\ UNCHANGED authorized_docs
    /\ render' = LoginPage
    /\ UNCHANGED <<grants, frameVars, indexVars>>

\* logout, lines 248-255, reached from the button of the main page
Logout ==
    /\ authenticated
    /\ authenticated' = FALSE
    /\ username' = None
    /\ access_token' = None
    /\ refresh_token' = None
    /\ authorized_docs' = <<>>
    /\ render' = LoginPage
    /\ UNCHANGED <<grants, frameVars, indexVars>>

\* lines 315-346 with the grants looked up again for every query
SearchLooksUpGrants ==
    /\ authenticated
    /\ LET docs == LoginFallback(username,
                                 GetUserPermissions(username, TablePages(grants), 0))
       IN  IF docs = <<>>
           THEN render' = [page |-> "no_access", lookup |-> "none",
                           out |-> NoResults(<<>>)]
           ELSE \E mode \in StoreModes, relevant \in SUBSET Rankable(index, fillerCount) :
                   render' = [page |-> "results", lookup |-> "none",
                              out |-> CombinedSearch(docs, index, fillerCount,
                                                     mode, relevant)]
    /\ UNCHANGED <<sessionVars, grants, frameVars, indexVars>>

\* main, lines 315-346: the search button with a query
Search ==
    /\ authenticated
    /\ IF authorized_docs = <<>>                                \* lines 317-319
       THEN render' = [page |-> "no_access", lookup |-> "none",
                       out |-> NoResults(<<>>)]
       ELSE \E mode \in StoreModes, relevant \in SUBSET Rankable(index, fillerCount) :
               render' = [page |-> "results", lookup |-> "none",
                          out |-> CombinedSearch(authorized_docs, index, fillerCount,
                                                 mode, relevant)]
    /\ UNCHANGED <<sessionVars, grants, frameVars, indexVars>>

\* PermissionManager.add_document_permission / update_document_permission
AddDocumentPermission ==
    /\ \E key \in AppKeys, users \in (SUBSET AppUsers) \ {{}} :
          grants' = [grants EXCEPT ![key] = users]
    /\ UNCHANGED <<sessionVars, render, frameVars, indexVars>>

\* PermissionManager.remove_document_permission
RemoveDocumentPermission ==
    /\ \E key \in AppKeys :
          /\ grants[key] # {}
          /\ grants' = [grants EXCEPT ![key] = {}]
    /\ UNCHANGED <<sessionVars, render, frameVars, indexVars>>

AppIdle ==
    /\ SessionInit
    /\ grants = [k \in AppKeys |-> {}]
    /\ render = LoginPage

(***************************************************************************)
(* OpenSearchManager.rerank_results                                        *)
(*                                                                         *)
(* A result is [id, score]; a score is [num, v]: a number v, or (num false)*)
(* a value that Python cannot order against a number, such as None.  The   *)
(* reranker's answer is [kind, passages]: kind "raise" when invoke_model   *)
(* raises, "bad_body" when the body cannot be parsed or a passage lacks    *)
(* its id or score, "ok" otherwise.                                        *)
(***************************************************************************)
MaxResults == 3

Num(v) == [num |-> TRUE, v |-> v]
NotANumber == [num |-> FALSE, v |-> 0]

Result(id, v) == [id |-> id, score |-> Num(v)]
Passage(id, score) == [id |-> id, score |-> score]

\* line 599: the dict comprehension keeps the last score given for an id
IdToScore(passages, id) ==
    LET at == {i \in 1..Len(passages) : passages[i].id = id}
    IN  passages[CHOOSE i \in at : \A j \in at : j <= i].score

\* lines 602-605 left out: no score is replaced
UpdateScoresNever(results, passages) == results

\* lines 602-605: the score of every result whose id was returned is replaced,
\* in the result objects of the caller's list
UpdateScores(results, passages) ==
    [i \in 1..Len(results) |->
        IF \E j \in 1..Len(passages) : passages[j].id = results[i].id
        THEN [results[i] EXCEPT !.score = IdToScore(passages, results[i].id)]
        ELSE results[i]]

RECURSIVE InsertDesc(_, _)
\* r, which stood before every element of the sorted s, goes before the first
\* element that has not a greater score
InsertDesc(r, s) ==
    IF s = <<>> THEN <<r>>
    ELSE IF Head(s).score.v > r.score.v THEN <<Head(s)>> \o InsertDesc(r, Tail(s))
    ELSE <<r>> \o s

RECURSIVE InsertAfterTies(_, _)
InsertAfterTies(r, s) ==
    IF s = <<>> THEN <<r>>
    ELSE IF Head(s).score.v >= r.score.v THEN <<Head(s)>> \o InsertAfterTies(r, Tail(s))
    ELSE <<r>> \o s

RECURSIVE SortDescTiesReversed(_)
\* line 608 with a sort that is not stable: equal scores come out reversed
SortDescTiesReversed(s) ==
    IF s = <<>> THEN <<>> ELSE InsertAfterTies(Head(s), SortDescTiesReversed(Tail(s)))

RECURSIVE SortDesc(_)
\* line 608: list.sort(key=score, reverse=True), a stable sort
SortDesc(s) == IF s = <<>> THEN <<>> ELSE InsertDesc(Head(s), SortDesc(Tail(s)))

\* line 608: a comparison of two scores raises TypeError when one of them is
\* not a number; sorting two or more elements compares every element
SortRaises(results) ==
    Len(results) >= 2 /\ \E i \in 1..Len(results) : ~results[i].score.num

\* the orders a list may be left in by a sort that raised: the elements are
\* all there, and the sort, which is stable, has not exchanged two elements
\* of equal score
Orders(s) ==
    {p \in [1..Len(s) -> Range(s)] :
        /\ \A i \in 1..Len(s) : \E j \in 1..Len(s) : p[j] = s[i]
        /\ \A i, j \in 1..Len(s) :
              (i < j /\ s[i].score = s[j].score)
              => \E k, l \in 1..Len(s) : k < l /\ p[k] = s[i] /\ p[l] = s[j]}

\* lines 565-614: the possible outcomes [ret, raised, called]
RerankResults(results, response) ==
    IF results = <<>>
    THEN {[ret |-> <<>>, raised |-> FALSE, called |-> FALSE]}        \* lines 567-568
    ELSE IF response.kind \in {"raise", "bad_body"}
    THEN {[ret |-> results, raised |-> TRUE, called |-> TRUE]}       \* lines 612-614
    ELSE LET scored == UpdateScores(results, response.passages)      \* lines 599-605
         IN  IF SortRaises(scored)
             THEN {[ret |-> p, raised |-> TRUE, called |-> TRUE] :   \* lines 608, 612-614
                      p \in Orders(scored)}
             ELSE {[ret |-> SortDesc(scored), raised |-> FALSE,      \* lines 608-610
                    called |-> TRUE]}

(***************************************************************************)
(* rerank_results on its own: the results and the reranker's answer drawn  *)
(* at Init, one call.                                                      *)
(***************************************************************************)
ResultIds == 1..MaxResults
ResultScores == {1, 2}

\* search hits: distinct ids, numeric scores
ResultChoices ==
    UNION { {s \in [1..n -> {Result(id, v) : id \in ResultIds, v \in ResultScores}] :
                \A i, j \in 1..n : i # j => s[i].id # s[j].id} : n \in 0..MaxResults }

PassageChoices ==
    { Passage(1, Num(3)), Passage(2, Num(1)), Passage(2, NotANumber),
      Passage(9, Num(5)) }

ResponseChoices ==
    {[kind |-> "raise", passages |-> <<>>], [kind |-> "bad_body", passages |-> <<>>]}
    \cup {[kind |-> "ok", passages |-> ps] :
             ps \in UNION {[1..n -> PassageChoices] : n \in 0..2}}

RerankIdle == rerank = [pc |-> "idle"]

RerankInit ==
    \E results \in ResultChoices, response \in ResponseChoices :
        rerank = [pc |-> "call", results |-> results, response |-> response,
                  ret |-> <<>>, raised |-> FALSE, called |-> FALSE]

RerankResultsCall ==
    /\ rerank.pc = "call"
    /\ \E o \in RerankResults(rerank.results, rerank.response) :
          rerank' = [rerank EXCEPT !.pc = "done", !.ret = o.ret,
                                   !.raised = o.raised, !.called = o.called]

(***************************************************************************)
(* document_parser.py: DocumentParser._process_image                       *)
(*                                                                         *)
(* An image file is [opens, width, height, ndim, pixels]: whether          *)
(* Image.open reads it, its size, the number of dimensions of              *)
(* np.array(image) and, row after row, the channel values of its pixels    *)
(* (one value for each pixel when ndim is 2).  env is what the description *)
(* model and the blob store do: [describe, upload], each "ok" or "fails".  *)
(***************************************************************************)
IMAGE_MIN_WIDTH == 4     \* DocumentProcessingConfig.IMAGE_MIN_WIDTH
IMAGE_MIN_HEIGHT == 3    \* DocumentProcessingConfig.IMAGE_MIN_HEIGHT
NearWhite == 240         \* img_array < 240
BlankPercent == 5        \* non_white_ratio < 0.05

\* line 234 (np.any(img_array < 240, axis=2)) and line 238 (img_array < 240):
\* the pixels with a value below 240
NonWhiteCount(image) ==
    Cardinality({i \in 1..Len(image.pixels) :
                    \E c \in 1..Len(image.pixels[i]) : image.pixels[i][c] < NearWhite})

\* lines 226-228
TooSmall(image) ==
    image.width < IMAGE_MIN_WIDTH \/ image.height < IMAGE_MIN_HEIGHT

\* lines 231-240 with the test made for colour images only
IsBlankColourOnly(image) ==
    /\ image.ndim = 3
    /\ NonWhiteCount(image) * 100 < BlankPercent * (image.width * image.height)

\* lines 231-240: count / (width * height) < 0.05, in both branches
IsBlank(image) ==
    NonWhiteCount(image) * 100 < BlankPercent * (image.width * image.height)

\* lines 170-216: "" when the model call fails
GenerateDescription(env) == IF env.describe = "ok" THEN "description" ELSE ""

\* lines 152-159: the keys that reach the bucket
UploadFile(key, env) == IF env.upload = "ok" THEN <<key>> ELSE <<>>

NoAsset == [asset |-> <<>>, described |-> FALSE, puts |-> <<>>, stored |-> <<>>]

\* lines 218-293.  id is the uuid4 drawn at line 253.  The outcome is
\* [asset, described, puts, stored]: the metadata returned (none, or one), whether
\* the description model was called, the uploads asked for and those that
\* reached the bucket.
ProcessImage(image, original_key, page_num, img_index, id, env) ==
    IF ~image.opens THEN NoAsset                                   \* lines 291-293
    ELSE IF TooSmall(image) THEN NoAsset                           \* lines 226-228
    ELSE IF IsBlank(image) THEN NoAsset                            \* lines 231-240
    ELSE LET s3_path == <<"images/", id>>
             meta_path == <<"metadata/images/", id>>
         IN  [asset |-> << [kind |-> "image", id |-> id,
                            original_file |-> original_key,
                            width |-> image.width, height |-> image.height,
                            description |-> GenerateDescription(env),
                            s3_path |-> s3_path,
                            page_number |-> page_num,
                            index |-> img_index] >>,
              described |-> TRUE,                                  \* lines 247-250
              puts |-> <<s3_path, meta_path>>,                     \* lines 273, 281
              stored |-> UploadFile(s3_path, env) \o UploadFile(meta_path, env)]

(***************************************************************************)
(* _process_image on its own: the file and env drawn at Init, one call.    *)
(***************************************************************************)
White(ndim) == IF ndim = 3 THEN <<255, 255, 255>> ELSE <<255>>
Tinted(ndim, v) == IF ndim = 3 THEN <<255, v, 255>> ELSE <<v>>

\* a width x height image whose first `dark` pixels have a channel of value v
MkImage(width, height, ndim, dark, v) ==
    [opens |-> TRUE, width |-> width, height |-> height, ndim |-> ndim,
     pixels |-> [i \in 1..(width * height) |->
                    IF i <= dark THEN Tinted(ndim, v) ELSE White(ndim)]]

UnreadableImage ==
    [opens |-> FALSE, width |-> 0, height |-> 0, ndim |-> 2, pixels |-> <<>>]

ImageSizes == {<<5, 4>>, <<7, 3>>, <<3, 3>>, <<4, 2>>}

ImageChoices ==
    {UnreadableImage} \cup
    { MkImage(wh[1], wh[2], ndim, dark, v) :
        wh \in ImageSizes, ndim \in {2, 3}, dark \in {0, 1, 2, 12}, v \in {239, 240} }

EnvChoices == [describe : {"ok", "fails"}, upload : {"ok", "fails"}]

ImageIdle == img = [pc |-> "idle"]

ImageInit ==
    \E image \in ImageChoices, env \in EnvChoices :
        img = [pc |-> "call", image |-> image, env |-> env, out |-> NoAsset]

ProcessImageCall ==
    /\ img.pc = "call"
    /\ img' = [img EXCEPT !.pc = "done",
                          !.out = ProcessImage(img.image, <<"source/", 1>>, 0, 0, 1,
                                               img.env)]

(***************************************************************************)
(* document_parser.py: the PDF pipeline.                                   *)
(*                                                                         *)
(* A PDF file is [opens, pages]: whether fitz.open reads it, and its pages.*)
(* A page is [text, images, findRaises, tables]: the length of its plain   *)
(* text, the byte sequences of its embedded images (each named by a        *)
(* number), whether page.find_tables() raises, and its tables.  A table is *)
(* [rows, cols, raises]: len(table.cells), len(table.cells[0]) and whether *)
(* turning it into CSV raises.                                             *)
(* env is [download, describe, upload, indexer].                           *)
(***************************************************************************)
MaxPdfPages == 2

TABLE_MIN_ROWS == 2      \* DocumentProcessingConfig.TABLE_MIN_ROWS
TABLE_MIN_COLS == 2      \* DocumentProcessingConfig.TABLE_MIN_COLS
CHUNK_SIZE == 8          \* DocumentProcessingConfig.CHUNK_SIZE
CHUNK_OVERLAP == 4       \* DocumentProcessingConfig.CHUNK_OVERLAP

\* The embedded byte sequences.  1, 2 and 5 are pictures, 3 is a white
\* rectangle, 4 is not an image Pillow can read.
ImageBytes == 1..5

\* lines 331-332: Image.open(io.BytesIO(image_bytes)) and image.save succeed
Decodes(bytes) == bytes # 4

\* the file that image.save writes at line 332
ImageOf(bytes) ==
    CASE bytes = 1 -> MkImage(5, 4, 3, 2, 239)
      [] bytes = 2 -> MkImage(7, 3, 2, 2, 239)
      [] bytes = 3 -> MkImage(5, 4, 3, 0, 239)
      [] bytes = 5 -> MkImage(5, 4, 2, 12, 239)
      [] OTHER -> UnreadableImage

\* line 317: hash(image_bytes), a value of bounded width: equal bytes have
\* equal hashes, and here the byte sequences 1 and 5 collide
HashSpace == 4
Hash(bytes) == bytes % HashSpace

\* lines 318-319 with the lookup never finding the hash
SeenNever(image_hash, processed_images) == FALSE

\* line 318: image_hash in processed_images
Seen(image_hash, processed_images) == image_hash \in processed_images

\* uuid4 at lines 253 and 394: a value no other asset of the document has
ImageId(page_num, img_index) == 10 * page_num + img_index
TableId(page_num, table_index) == 100 + 10 * page_num + table_index

\* lines 306-311, 0-based counters turned into page_num + 1, img_index + 1
PageImageItems(pages, p) ==
    [i \in 1..Len(pages[p].images) |->
        [page_num |-> p, img_index |-> i, bytes |-> pages[p].images[i]]]

ImageItems(pages) == Concat([p \in 1..Len(pages) |-> PageImageItems(pages, p)])

RECURSIVE ExtractImagesFrom(_, _, _, _)
\* lines 306-344: the outcomes of the _process_image calls, in order.  An
\* image that does not decode raises into the except at line 348, which ends
\* the loops and keeps what images_info holds.
ExtractImagesFrom(items, processed_images, original_key, env) ==
    IF items = <<>> THEN <<>>
    ELSE LET it == Head(items)
             image_hash == Hash(it.bytes)
         IN  IF Seen(image_hash, processed_images)                 \* lines 318-319
             THEN ExtractImagesFrom(Tail(items), processed_images, original_key, env)
             ELSE IF ~Decodes(it.bytes) THEN <<>>                  \* lines 331-332, 348
             ELSE << ProcessImage(ImageOf(it.bytes), original_key, it.page_num,
                                  it.img_index,
                                  ImageId(it.page_num, it.img_index), env) >>
                  \o ExtractImagesFrom(Tail(items),
                                       processed_images \cup {image_hash},
                                       original_key, env)

\* lines 295-354 with a hash set that outlives the call: for a document other
\* than the first one it already holds the hashes met before
ExtractImagesFromPdfSharedSet(file, original_key, env) ==
    IF ~file.opens THEN <<>>
    ELSE ExtractImagesFrom(ImageItems(file.pages),
                           IF original_key = <<97, 46, 112, 100, 102>> THEN {}
                           ELSE {Hash(b) : b \in ImageBytes},
                           original_key, env)

\* lines 295-354
ExtractImagesFromPdf(file, original_key, env) ==
    IF ~file.opens THEN <<>>                                       \* lines 303, 348
    ELSE ExtractImagesFrom(ImageItems(file.pages), {}, original_key, env)

\* lines 342-343: images_info collects the non-empty metadata
ImagesInfo(outcomes) == Concat([i \in 1..Len(outcomes) |-> outcomes[i].asset])

\* lines 374-376
TableTooSmall(table) == table.rows < TABLE_MIN_ROWS \/ table.cols < TABLE_MIN_COLS

RECURSIVE PageTables(_, _, _, _, _)
\* lines 372-443 for the tables of one page from table_index on: the metadata
\* appended to tables_info until a table raises
PageTables(tables, page_num, table_index, original_key, env) ==
    IF tables = <<>> THEN <<>>
    ELSE LET table == Head(tables)
             rest == PageTables(Tail(tables), page_num, table_index + 1,
                                original_key, env)
             id == TableId(page_num, table_index)
         IN  IF TableTooSmall(table) THEN rest                     \* lines 374-376
             ELSE IF table.raises THEN <<>>                        \* lines 445-447
             ELSE << [kind |-> "table", id |-> id,
                      original_file |-> original_key,
                      page_number |-> page_num,
                      table_index |-> table_index,
                      rows |-> table.rows, columns |-> table.cols,
                      description |-> GenerateDescription(env),
                      s3_path |-> <<"tables/", id>>] >> \o rest

\* a table of the page passes the size test and raises
PageRaises(page) ==
    \E i \in 1..Len(page.tables) : ~TableTooSmall(page.tables[i]) /\ page.tables[i].raises

\* lines 368-447 with a page that raises contributing nothing
TablesOfPageAllOrNothing(page, page_num, original_key, env) ==
    IF page.findRaises \/ PageRaises(page) THEN <<>>
    ELSE PageTables(page.tables, page_num, 1, original_key, env)

\* lines 368-447: the per-page try
TablesOfPage(page, page_num, original_key, env) ==
    IF page.findRaises THEN <<>>                                   \* lines 369, 445
    ELSE PageTables(page.tables, page_num, 1, original_key, env)

\* lines 356-458
ExtractTablesFromPdf(file, original_key, env) ==
    IF ~file.opens THEN <<>>                                       \* lines 363, 452
    ELSE Concat([p \in 1..Len(file.pages) |->
                    TablesOfPage(file.pages[p], p, original_key, env)])

\* lines 427 and 437: the uploads of a table and of its metadata
TablePuts(tables_info) ==
    Concat([i \in 1..Len(tables_info) |->
               <<tables_info[i].s3_path, <<"metadata/tables/", tables_info[i].id>>>>])

\* the length that a description adds to a block
DescriptionLen(description) == IF description = "" THEN 0 ELSE 1

\* lines 558-561: the page's text, when it has any
TextBlocks(page, page_num) ==
    IF page.text = 0 THEN <<>>
    ELSE << [kind |-> "text", page |-> page_num, ref |-> <<>>,
             description |-> "", len |-> page.text] >>

\* lines 564-578 without the test on page_number
AssetBlocksAnyPage(kind, infos, page_num) ==
    [i \in 1..Len(infos) |->
        [kind |-> kind, page |-> page_num, ref |-> infos[i].s3_path,
         description |-> infos[i].description,
         len |-> 1 + DescriptionLen(infos[i].description)]]

\* lines 564-569 (kind "figure") and 572-578 (kind "table"): one block for
\* each member of infos whose page_number is page_num, in the order of infos
AssetBlocks(kind, infos, page_num) ==
    LET mine == SelectSeq(infos, LAMBDA a : a.page_number = page_num)
    IN  [i \in 1..Len(mine) |->
            [kind |-> kind, page |-> page_num, ref |-> mine[i].s3_path,
             description |-> mine[i].description,
             len |-> 1 + DescriptionLen(mine[i].description)]]

\* lines 553-578: text_content as the sequence of its blocks, which blank
\* lines separate
TextContent(pages, images_info, tables_info) ==
    Concat([p \in 1..Len(pages) |->
               TextBlocks(pages[p], p)
               \o AssetBlocks("figure", images_info, p)
               \o AssetBlocks("table", tables_info, p)])

\* RecursiveCharacterTextSplitter cuts at the blank lines and keeps each
\* separator at the head of the split that follows it
SeparatorLen == 2
Splits(text_content) ==
    [i \in 1..Len(text_content) |->
        [block |-> text_content[i],
         len |-> text_content[i].len + (IF i = 1 THEN 0 ELSE SeparatorLen)]]

RECURSIVE Total(_)
Total(current_doc) ==
    IF current_doc = <<>> THEN 0 ELSE Head(current_doc).len + Total(Tail(current_doc))

RECURSIVE DropForOverlap(_, _)
\* the splitter's loop that shortens current_doc after a chunk was emitted
DropForOverlap(current_doc, len) ==
    IF Total(current_doc) > CHUNK_OVERLAP
       \/ (Total(current_doc) + len > CHUNK_SIZE /\ Total(current_doc) > 0)
    THEN DropForOverlap(Tail(current_doc), len)
    ELSE current_doc

RECURSIVE MergeSplits(_, _)
\* the splitter's merge of splits shorter than chunk_size into chunks
MergeSplits(splits, current_doc) ==
    IF splits = <<>>
    THEN IF current_doc = <<>> THEN <<>> ELSE <<current_doc>>
    ELSE LET d == Head(splits)
         IN  IF Total(current_doc) + d.len > CHUNK_SIZE /\ current_doc # <<>>
             THEN <<current_doc>>
                  \o MergeSplits(Tail(splits),
                                 Append(DropForOverlap(current_doc, d.len), d))
             ELSE MergeSplits(Tail(splits), Append(current_doc, d))

\* lines 512-518: the chunks, each the sequence of the blocks it holds
SplitText(text_content) ==
    LET chunks == MergeSplits(Splits(text_content), <<>>)
    IN  [c \in 1..Len(chunks) |-> [i \in 1..Len(chunks[c]) |-> chunks[c][i].block]]

\* opensearch_schema.py, SIMPLIFIED_INDEX_MAPPING: the dimensions declared
TextEmbeddingDim == 1536
MultimodalEmbeddingDim == 1536

\* A document of the index names its vectors by their lengths, 0 for a field
\* it does not have.  env.embedding_dim and env.multimodal_dim are the
\* lengths of the vectors the two embedding models give; env.strict_mapping
\* tells whether the index that exists rejects a vector of another length
\* than the mapping declares.
StoreAccepts(doc, env) ==
    \/ ~env.strict_mapping
    \/ /\ doc.text_embedding \in {0, TextEmbeddingDim}
       /\ doc.multimodal_embedding \in {0, MultimodalEmbeddingDim}

\* lines 476-495: the document built for chunk i (counted from 0), whose
\* text_embedding is what embed_query gave
ChunkDoc(chunks, i, source_key, ext, env) ==
    [chunk_id |-> <<source_key, i>>,
     content |-> chunks[i + 1],
     source |-> source_key,
     document_type |-> ext,
     text_embedding |-> env.embedding_dim,
     multimodal_embedding |-> 0]

\* the chunks, counted from 0, for which embed_query (line 474) is called,
\* and those for which client.index (line 497) is called and succeeds
Attempted(chunks) == [k \in 1..Len(chunks) |-> k - 1]
WriteFails(i, env) ==
    \/ i \in env.write_fails
    \/ env.strict_mapping /\ env.embedding_dim # TextEmbeddingDim

Written(chunks, env) ==
    SelectSeq(Attempted(chunks),
              LAMBDA i : i \notin env.embed_fails /\ ~WriteFails(i, env))

NotIndexed == [ret |-> FALSE, attempted |-> <<>>, written |-> <<>>]

\* lines 470-506 with the first failure ending the loop
IndexLoopStopsAtFailure(chunks, source_key, ext, env) ==
    LET failed == {i \in Range(Attempted(chunks)) :
                      i \in env.embed_fails \/ WriteFails(i, env)}
        done == SelectSeq(Attempted(chunks), LAMBDA i : \A f \in failed : i < f)
        tried == SelectSeq(Attempted(chunks), LAMBDA i : \A f \in failed : i <= f)
    IN  [ret |-> failed = {},
         attempted |-> tried,
         written |-> [k \in 1..Len(done) |->
                         ChunkDoc(chunks, done[k], source_key, ext, env)]]

\* lines 470-506 with a chunk that failed tried a second time
IndexLoopRetries(chunks, source_key, ext, env) ==
    LET written == Written(chunks, env)
        failed(i) == i \in env.embed_fails \/ WriteFails(i, env)
    IN  [ret |-> TRUE,
         attempted |-> Concat([k \in 1..Len(chunks) |->
                                  IF failed(k - 1) THEN <<k - 1, k - 1>> ELSE <<k - 1>>]),
         written |-> [k \in 1..Len(written) |->
                         ChunkDoc(chunks, written[k], source_key, ext, env)]]

\* lines 470-506: the loop over the chunks, each in a try of its own
IndexLoop(chunks, source_key, ext, env) ==
    LET written == Written(chunks, env)
    IN  [ret |-> TRUE,                                             \* line 506
         attempted |-> Attempted(chunks),
         written |-> [k \in 1..Len(written) |->
                         ChunkDoc(chunks, written[k], source_key, ext, env)]]

\* lines 460-510: [ret, attempted, written]: the value returned, the chunks
\* (counted from 0) an embedding was asked for, the documents written
IndexChunksToOpensearch(chunks, source_key, ext, env) ==
    IF env.indexer = "no_client" THEN NotIndexed                   \* lines 462-463
    ELSE IF env.indexer = "exists_raises" THEN NotIndexed          \* lines 467, 508-510
    ELSE IF env.indexer = "no_index" THEN NotIndexed               \* lines 467-468
    ELSE IndexLoop(chunks, source_key, ext, env)

\* lines 602-603 (and 640-641, 683-684): the call is made when the parser
\* has a client
Indexed(chunks, file_key, ext, env) ==
    IF env.indexer = "no_client" THEN NotIndexed
    ELSE IndexChunksToOpensearch(chunks, file_key, ext, env)

NoResult(file_key) ==
    [original_key |-> file_key, processed_key |-> <<>>, images |-> <<>>,
     tables |-> <<>>, chunks |-> 0, status |-> "failed",
     text_content |-> <<>>, chunk_list |-> <<>>, outcomes |-> <<>>,
     puts |-> <<>>, indexed |-> NotIndexed, written |-> <<>>]

\* lines 520-613.  The result, with what the call did besides: text_content
\* (the file uploaded at line 591), the chunks, the outcomes of the
\* _process_image calls, the uploads asked for and the documents written.
ProcessPdf(file, file_key, env) ==
    IF env.download = "fails" THEN NoResult(file_key)              \* lines 536-537
    ELSE LET outcomes == ExtractImagesFromPdf(file, file_key, env)
             images_info == ImagesInfo(outcomes)
             tables_info == ExtractTablesFromPdf(file, file_key, env)
             image_puts == Concat([i \in 1..Len(outcomes) |-> outcomes[i].puts])
         IN  IF ~file.opens                                        \* lines 550, 608-610
             THEN [NoResult(file_key) EXCEPT !.images = images_info,
                                             !.tables = tables_info,
                                             !.outcomes = outcomes]
             ELSE LET text_content == TextContent(file.pages, images_info, tables_info)
                      processed_key == <<"processed/", file_key>>
                      chunks == SplitText(text_content)
                  IN  [original_key |-> file_key,
                       processed_key |-> processed_key,
                       images |-> images_info,
                       tables |-> tables_info,
                       chunks |-> Len(chunks),
                       status |-> "success",
                       text_content |-> text_content,
                       chunk_list |-> chunks,
                       outcomes |-> outcomes,
                       puts |-> image_puts \o TablePuts(tables_info)
                                \o <<processed_key>>,
                       indexed |-> Indexed(chunks, file_key, "pdf", env),
                       written |-> Indexed(chunks, file_key, "pdf", env).written]

(***************************************************************************)
(* process_pdf on its own: the file and env drawn at Init, one call.       *)
(***************************************************************************)
GoodTable == [rows |-> 2, cols |-> 3, raises |-> FALSE]
\* too small: the size test skips it before anything can raise
SmallTable == [rows |-> 1, cols |-> 3, raises |-> TRUE]
BadTable == [rows |-> 2, cols |-> 2, raises |-> TRUE]

Page(text, images, findRaises, tables) ==
    [text |-> text, images |-> images, findRaises |-> findRaises, tables |-> tables]

PdfPageChoices ==
    { Page(2, images, FALSE, <<>>) :
        images \in { <<>>, <<1>>, <<1, 1>>, <<3>>, <<3, 3>>, <<4>>, <<4, 1>>,
                     <<1, 4>>, <<2, 1>>, <<5>>, <<1, 5>> } }
    \cup
    { Page(2, <<>>, FALSE, tables) :
        tables \in { <<GoodTable>>, <<SmallTable>>, <<BadTable>>,
                     <<GoodTable, BadTable>>, <<BadTable, GoodTable>>,
                     <<SmallTable, GoodTable>> } }
    \cup
    { Page(2, <<>>, TRUE, <<GoodTable>>),
      Page(2, <<1>>, FALSE, <<GoodTable>>),
      Page(0, <<2>>, FALSE, <<>>) }

PdfChoices ==
    { [opens |-> FALSE, pages |-> <<>>] } \cup
    { [opens |-> TRUE, pages |-> pages] :
        pages \in UNION {[1..n -> PdfPageChoices] : n \in 1..MaxPdfPages} }

AllOk ==
    [download |-> "ok", describe |-> "ok", upload |-> "ok", indexer |-> "ok",
     embed_fails |-> {}, write_fails |-> {},
     embedding_dim |-> TextEmbeddingDim, multimodal_dim |-> MultimodalEmbeddingDim,
     strict_mapping |-> TRUE]

PdfEnvChoices ==
    { AllOk,
      [AllOk EXCEPT !.download = "fails"],
      [AllOk EXCEPT !.describe = "fails"],
      [AllOk EXCEPT !.upload = "fails"],
      [AllOk EXCEPT !.indexer = "no_client"],
      [AllOk EXCEPT !.indexer = "no_index"],
      [AllOk EXCEPT !.embed_fails = {0}] }

PdfKey == <<97, 46, 112, 100, 102>>    \* "a.pdf"

PdfIdle == pdf = [pc |-> "idle"]

PdfInit ==
    \E file \in PdfChoices, env \in PdfEnvChoices :
        pdf = [pc |-> "call", file |-> file, env |-> env, out |-> NoResult(PdfKey)]

\* the ids that the index store gives to n new documents
NewDocs(idx, written) ==
    LET used == {d.id : d \in idx}
        base == IF used = {} THEN 0 ELSE CHOOSE m \in used : \A k \in used : k <= m
    IN  { [id |-> base + i,
           source |-> written[i].source,
           document_type |-> written[i].document_type,
           chunk_id |-> written[i].chunk_id,
           text_embedding |-> written[i].text_embedding,
           multimodal_embedding |-> written[i].multimodal_embedding] :
            i \in 1..Len(written) }

ProcessPdfCall ==
    /\ pdf.pc = "call"
    /\ LET out == ProcessPdf(pdf.file, PdfKey, pdf.env)
       IN  /\ pdf' = [pdf EXCEPT !.pc = "done", !.out = out]
           /\ index' = index \cup NewDocs(index, out.written)
    /\ UNCHANGED fillerCount

(***************************************************************************)
(* document_parser.py: process_text_file, process_image_file, process_file *)
(*                                                                         *)
(* A source file is [key, ext, text, image, pdf]: its key, the extension   *)
(* of key.lower(), and what it holds when read as text ([decodes,          *)
(* paragraphs]: whether it is UTF-8, and the lengths of its paragraphs),   *)
(* as an image or as a PDF.                                                *)
(***************************************************************************)
MaxRuns == 2

NoText == [decodes |-> FALSE, paragraphs |-> <<>>]
NoPdf == [opens |-> FALSE, pages |-> <<>>]

\* lines 633-634: f.read(), as the blocks that blank lines separate
TextFileContent(text) ==
    [i \in 1..Len(text.paragraphs) |->
        [kind |-> "text", page |-> i, ref |-> <<>>, description |-> "",
         len |-> text.paragraphs[i]]]

\* lines 615-653
ProcessTextFile(file, file_key, env) ==
    LET result == [NoResult(file_key) EXCEPT !.processed_key = file_key]
    IN  IF env.download = "fails" THEN result                      \* lines 629-630
        ELSE IF ~file.text.decodes THEN result                     \* lines 633-634, 646-648
        ELSE LET text_content == TextFileContent(file.text)
                 chunks == SplitText(text_content)
                 indexed == Indexed(chunks, file_key, file.ext, env)
             IN  [result EXCEPT !.chunks = Len(chunks),
                                !.status = "success",
                                !.text_content = text_content,
                                !.chunk_list = chunks,
                                !.indexed = indexed,
                                !.written = indexed.written]

\* lines 655-696 with an image that _process_image rejects reported as a
\* success without assets
ProcessImageFileRejectIsSuccess(file, file_key, env) ==
    IF env.download = "fails" THEN NoResult(file_key)
    ELSE LET o == ProcessImage(file.image, file_key, 0, 0, ImageId(0, 1), env)
         IN  [NoResult(file_key) EXCEPT !.images = o.asset,
                                        !.status = "success",
                                        !.outcomes = <<o>>,
                                        !.puts = o.puts]

\* lines 655-696
ProcessImageFile(file, file_key, env) ==
    IF env.download = "fails" THEN NoResult(file_key)              \* lines 669-670
    ELSE LET o == ProcessImage(file.image, file_key, 0, 0, ImageId(0, 1), env)
         IN  IF o.asset = <<>>                                     \* lines 675-676
             THEN [NoResult(file_key) EXCEPT !.outcomes = <<o>>]
             ELSE LET chunks == <<o.asset[1].description>>
                      indexed == Indexed(chunks, file_key, file.ext, env)
                  IN  [NoResult(file_key) EXCEPT
                          !.images = o.asset,
                          !.processed_key = o.asset[1].s3_path,
                          !.chunks = IF env.indexer = "no_client" THEN 0 ELSE 1,
                          !.status = "success",
                          !.chunk_list = chunks,
                          !.outcomes = <<o>>,
                          !.puts = o.puts,
                          !.indexed = indexed,
                          !.written = indexed.written]

\* lines 708-712
Unsupported(file_key) ==
    [NoResult(file_key) EXCEPT !.status = "unsupported_format"]

\* lines 698-712
ProcessFile(file, env) ==
    IF file.ext = "pdf" THEN ProcessPdf(file.pdf, file.key, env)
    ELSE IF file.ext \in {"txt", "csv"} THEN ProcessTextFile(file, file.key, env)
    ELSE IF file.ext \in {"jpg", "jpeg", "png"} THEN ProcessImageFile(file, file.key, env)
    ELSE Unsupported(file.key)

(***************************************************************************)
(* process_image_metadata.py: process_metadata_file on the sidecar of an   *)
(* image asset, which holds the asset's metadata.                          *)
(***************************************************************************)
\* lines 111-147: the text embedding of the description, [] on failure
GetEmbedding(env) == IF 0 \in env.embed_fails THEN 0 ELSE env.embedding_dim

\* lines 31-85: the multimodal embedding, [] on failure
GetMultimodalEmbedding(env) == env.multimodal_dim

\* lines 223-235
MetadataDoc(metadata, env) ==
    [chunk_id |-> <<"img_", metadata.id>>,
     content |-> metadata.description,
     source |-> metadata.original_file,
     document_type |-> "image",
     text_embedding |-> GetEmbedding(env),
     multimodal_embedding |-> GetMultimodalEmbedding(env)]

\* lines 149-253: [ret, written]
ProcessMetadataFile(metadata, env) ==
    IF metadata.description = "" THEN [ret |-> FALSE, written |-> <<>>]   \* lines 175-177
    ELSE IF GetEmbedding(env) = 0 THEN [ret |-> FALSE, written |-> <<>>]  \* lines 183-185
    ELSE LET document == MetadataDoc(metadata, env)
         IN  IF \/ env.indexer # "ok"                              \* lines 239, 251-253
                \/ 0 \in env.write_fails
                \/ ~StoreAccepts(document, env)
             THEN [ret |-> FALSE, written |-> <<>>]
             ELSE [ret |-> TRUE, written |-> <<document>>]          \* lines 244-246

(***************************************************************************)
(* process_file run on one source file, up to MaxRuns times, against one   *)
(* index: the file and env are drawn at Init.                              *)
(***************************************************************************)
SourceFile(key, ext, text, image, doc) ==
    [key |-> key, ext |-> ext, text |-> text, image |-> image, pdf |-> doc]

TxtKey == <<97, 46, 116, 120, 116>>    \* "a.txt"
CsvKey == <<97, 46, 99, 115, 118>>     \* "a.csv"
JpgKey == <<97, 46, 106, 112, 103>>    \* "a.jpg"
PngKey == <<97, 46, 80, 78, 71>>       \* "a.PNG"
DocKey == <<97, 46, 100, 111, 99>>     \* "a.doc"

ParagraphChoices ==
    { <<>>, <<2>>, <<5>>, <<2, 2>>, <<2, 5>>, <<5, 5>>, <<2, 2, 2>>, <<5, 2, 5>> }

FileChoices ==
    { SourceFile(TxtKey, "txt", [decodes |-> TRUE, paragraphs |-> p],
                 UnreadableImage, NoPdf) : p \in ParagraphChoices }
    \cup
    { SourceFile(CsvKey, "csv", NoText, UnreadableImage, NoPdf),
      SourceFile(DocKey, "doc", NoText, UnreadableImage, NoPdf) }
    \cup
    { SourceFile(JpgKey, "jpg", NoText, image, NoPdf) :
        image \in { UnreadableImage, MkImage(5, 4, 3, 2, 239),
                    MkImage(5, 4, 3, 0, 239), MkImage(3, 3, 2, 2, 239) } }
    \cup
    { SourceFile(PngKey, "png", NoText, MkImage(7, 3, 2, 2, 239), NoPdf) }
    \cup
    { SourceFile(PdfKey, "pdf", NoText, UnreadableImage, doc) :
        doc \in {f \in PdfChoices : Len(f.pages) <= 1} }

IngestEnvChoices ==
    PdfEnvChoices \cup
    { [AllOk EXCEPT !.indexer = "exists_raises"],
      [AllOk EXCEPT !.write_fails = {1}],
      [AllOk EXCEPT !.embed_fails = {0}, !.write_fails = {2}],
      [AllOk EXCEPT !.multimodal_dim = 0],
      [AllOk EXCEPT !.embedding_dim = 1024],
      [AllOk EXCEPT !.embedding_dim = 1024, !.strict_mapping = FALSE],
      [AllOk EXCEPT !.multimodal_dim = 1024, !.strict_mapping = FALSE] }

IngestIdle == ingest = [pc |-> "idle"]

IngestInit ==
    \E file \in FileChoices, env \in IngestEnvChoices :
        ingest = [pc |-> "ready", file |-> file, env |-> env, runs |-> 0,
                  out |-> NoResult(file.key), meta_runs |-> 0,
                  meta_out |-> [ret |-> FALSE, written |-> <<>>]]

ProcessFileCall ==
    /\ ingest.pc = "ready"
    /\ ingest.runs < MaxRuns
    /\ LET out == ProcessFile(ingest.file, ingest.env)
       IN  /\ ingest' = [ingest EXCEPT !.runs = @ + 1, !.out = out]
           /\ index' = index \cup NewDocs(index, out.written)
    /\ UNCHANGED fillerCount

\* the sidecars that the last run of process_file put in the bucket
Sidecars ==
    { o.asset[1] : o \in { x \in Range(ingest.out.outcomes) :
                              /\ x.asset # <<>>
                              /\ <<"metadata/images/", x.asset[1].id>> \in Range(x.stored) } }

\* process_image_metadata.py, main, lines 264-269: one sidecar is processed
ProcessMetadataFileCall ==
    /\ ingest.pc = "ready"
    /\ ingest.meta_runs < MaxRuns
    /\ \E metadata \in Sidecars :
          LET out == ProcessMetadataFile(metadata, ingest.env)
          IN  /\ ingest' = [ingest EXCEPT !.meta_runs = @ + 1, !.meta_out = out]
              /\ index' = index \cup NewDocs(index, out.written)
    /\ UNCHANGED fillerCount

(***************************************************************************)
(* document_parser.py: list_s3_files and process_all_files.                *)
(*                                                                         *)
(* contents is what list_objects_v2 answers for the source prefix, in key  *)
(* order: source files and directory markers (keys that end with "/").     *)
(* supported is the union of SUPPORTED_DOCUMENT_TYPES and                  *)
(* SUPPORTED_IMAGE_TYPES.                                                  *)
(***************************************************************************)
MaxFiles == 2

\* lines 105-140: [] when the listing raises or has no Contents
ListS3Files(contents, list_raises, supported) ==
    IF list_raises THEN <<>>                                       \* lines 138-140
    ELSE SelectSeq(contents,
                   LAMBDA f : /\ f.key[Len(f.key)] # 47            \* lines 119-120
                              /\ f.ext \in supported)              \* lines 127-128

\* lines 714-726 with the loop ending at the first file that failed
ProcessAllFilesStopAtFailure(contents, list_raises, supported, env) ==
    LET files == ListS3Files(contents, list_raises, supported)
        firstFailed == {i \in 1..Len(files) : ProcessFile(files[i], env).status = "failed"}
        last == IF firstFailed = {} THEN Len(files)
                ELSE CHOOSE i \in firstFailed : \A j \in firstFailed : i <= j
    IN  [i \in 1..last |-> ProcessFile(files[i], env)]

\* lines 714-726
ProcessAllFiles(contents, list_raises, supported, env) ==
    LET files == ListS3Files(contents, list_raises, supported)
    IN  [i \in 1..Len(files) |-> ProcessFile(files[i], env)]

RECURSIVE WriteAll(_, _)
\* the index after the writes of the results, in order
WriteAll(idx, results) ==
    IF results = <<>> THEN idx
    ELSE WriteAll(idx \cup NewDocs(idx, Head(results).written), Tail(results))

PdfKeyB == <<98, 46, 112, 100, 102>>   \* "b.pdf"
DirKey == <<115, 47>>                  \* "s/"

\* DocumentProcessingConfig.SUPPORTED_DOCUMENT_TYPES and SUPPORTED_IMAGE_TYPES
SupportedChoices ==
    { {"pdf", "txt", "csv", "jpg", "jpeg", "png"},
      {"pdf", "txt", "csv", "jpg", "jpeg", "png", "doc"} }

BucketChoices ==
    { SourceFile(DirKey, "", NoText, UnreadableImage, NoPdf),
      SourceFile(TxtKey, "txt", [decodes |-> TRUE, paragraphs |-> <<2, 5>>],
                 UnreadableImage, NoPdf),
      SourceFile(CsvKey, "csv", NoText, UnreadableImage, NoPdf),
      SourceFile(DocKey, "doc", NoText, UnreadableImage, NoPdf),
      SourceFile(JpgKey, "jpg", NoText, UnreadableImage, NoPdf),
      SourceFile(PngKey, "png", NoText, MkImage(7, 3, 2, 2, 239), NoPdf),
      SourceFile(PdfKey, "pdf", NoText, UnreadableImage, NoPdf) }
    \cup
    { SourceFile(key, "pdf", NoText, UnreadableImage,
                 [opens |-> TRUE, pages |-> <<Page(2, images, FALSE, <<>>)>>]) :
        key \in {PdfKey, PdfKeyB}, images \in {<<1>>, <<2, 1>>} }

\* keys are unique in a bucket
ContentsChoices ==
    UNION { {s \in [1..n -> BucketChoices] :
                \A i, j \in 1..n : i # j => s[i].key # s[j].key} : n \in 0..MaxFiles }

BatchEnvChoices ==
    { AllOk, [AllOk EXCEPT !.download = "fails"], [AllOk EXCEPT !.indexer = "no_client"] }

BatchInit ==
    \E contents \in ContentsChoices, list_raises \in BOOLEAN,
       supported \in SupportedChoices, env \in BatchEnvChoices :
        batch = [pc |-> "call", contents |-> contents, list_raises |-> list_raises,
                 supported |-> supported, env |-> env, results |-> <<>>]

ProcessAllFilesCall ==
    /\ batch.pc = "call"
    /\ LET results == ProcessAllFiles(batch.contents, batch.list_raises,
                                      batch.supported, batch.env)
       IN  /\ batch' = [batch EXCEPT !.pc = "done", !.results = results]
           /\ index' = WriteAll(index, results)
    /\ UNCHANGED fillerCount

(***************************************************************************)
(* opensearch_utils.py: the OpenSearchManager operations that take an      *)
(* index name.  admin is [client, exists, docs, touched, calls, last]:     *)
(* whether the manager has a client, the indices of the domain and the     *)
(* ids of their documents, the index names that a request to the store     *)
(* has carried, the number of calls made and the last call.                *)
(***************************************************************************)
MaxCalls == 3

IndexNames == {"multimodal_index", "mmrag-test-index", "other"}

\* the name is used as the caller gave it
CallerIndexName(index_name) == index_name

\* lines 82, 119, 153, 190, 237, 291, 343, 410, 448, 519
ForcedIndexName(index_name) == "multimodal_index"

\* a request to the store that names the index
Request(a, name) == [a EXCEPT !.touched = @ \cup {name}]

\* lines 66-102; raises: the store raises on the first request
CreateIndex(a, index_name, raises) ==
    IF ~a.client THEN [a EXCEPT !.ret = FALSE]                     \* lines 77-78
    ELSE LET name == ForcedIndexName(index_name)
             asked == Request(a, name)
         IN  IF raises THEN [asked EXCEPT !.ret = FALSE]           \* lines 100-102
             ELSE IF a.exists[name] THEN [asked EXCEPT !.ret = TRUE] \* lines 85-87
             ELSE [asked EXCEPT !.exists[name] = TRUE, !.ret = TRUE] \* lines 92-98

\* lines 104-134
DeleteIndex(a, index_name, raises) ==
    IF ~a.client THEN [a EXCEPT !.ret = FALSE]                     \* lines 114-115
    ELSE LET name == ForcedIndexName(index_name)
             asked == Request(a, name)
         IN  IF raises THEN [asked EXCEPT !.ret = FALSE]           \* lines 132-134
             ELSE IF ~a.exists[name] THEN [asked EXCEPT !.ret = TRUE] \* lines 122-124
             ELSE [asked EXCEPT !.exists[name] = FALSE,            \* lines 127-130
                                !.docs[name] = {}, !.ret = TRUE]

\* lines 136-172 (ids holds one id) and 174-218 (ids: the ids of the
\* documents that have one): the index is created when it is missing
IndexDocuments(a, index_name, ids, raises) ==
    IF ~a.client THEN [a EXCEPT !.ret = FALSE]
    ELSE LET name == ForcedIndexName(index_name)
             asked == Request(a, name)
             ensured == IF asked.exists[name] THEN asked
                        ELSE CreateIndex(asked, name, raises)
         IN  IF raises \/ ~ensured.exists[name] THEN [ensured EXCEPT !.ret = FALSE]
             ELSE [ensured EXCEPT !.docs[name] = @ \cup ids, !.ret = TRUE]

\* search_by_vector, search_by_text, hybrid_search,
\* search_by_vector_with_filter, get_index_stats and get_all_sources: one
\* request that reads the index
ReadIndex(a, index_name) ==
    IF ~a.client THEN a
    ELSE Request(a, ForcedIndexName(index_name))

ReadOperations ==
    {"search_by_vector", "search_by_text", "hybrid_search",
     "search_by_vector_with_filter", "get_index_stats", "get_all_sources"}

AdminInit ==
    \E client \in BOOLEAN, exists \in [IndexNames -> BOOLEAN] :
        admin = [pc |-> "ready", client |-> client, exists |-> exists,
                 docs |-> [n \in IndexNames |-> IF exists[n] THEN {1} ELSE {}],
                 touched |-> {}, calls |-> 0, ret |-> FALSE,
                 last |-> [op |-> "none", index_name |-> ""]]

Called(a, op, index_name) ==
    [a EXCEPT !.calls = @ + 1, !.last = [op |-> op, index_name |-> index_name]]

\* also main.setup_opensearch_index, which passes opensearch_config.index
CreateIndexCall ==
    /\ admin.pc = "ready" /\ admin.calls < MaxCalls
    /\ \E index_name \in IndexNames, raises \in BOOLEAN :
          admin' = Called(CreateIndex(admin, index_name, raises),
                          "create_index", index_name)

DeleteIndexCall ==
    /\ admin.pc = "ready" /\ admin.calls < MaxCalls
    /\ \E index_name \in IndexNames, raises \in BOOLEAN :
          admin' = Called(DeleteIndex(admin, index_name, raises),
                          "delete_index", index_name)

IndexDocumentCall ==
    /\ admin.pc = "ready" /\ admin.calls < MaxCalls
    /\ \E index_name \in IndexNames, doc_id \in {1, 2}, raises \in BOOLEAN :
          admin' = Called(IndexDocuments(admin, index_name, {doc_id}, raises),
                          "index_document", index_name)

BulkIndexDocumentsCall ==
    /\ admin.pc = "ready" /\ admin.calls < MaxCalls
    /\ \E index_name \in IndexNames, ids \in SUBSET {1, 2}, raises \in BOOLEAN :
          admin' = Called(IndexDocuments(admin, index_name, ids, raises),
                          "bulk_index_documents", index_name)

ReadIndexCall ==
    /\ admin.pc = "ready" /\ admin.calls < MaxCalls
    /\ \E index_name \in IndexNames, op \in ReadOperations :
          admin' = Called(ReadIndex(admin, index_name), op, index_name)

BatchIdle == batch = [pc |-> "idle"]

AdminIdle == admin = [pc |-> "idle"]

ParserIdle == ImageIdle /\ PdfIdle /\ IngestIdle /\ BatchIdle /\ AdminIdle

(***************************************************************************)
(* Specifications.                                                         *)
(***************************************************************************)
\* _process_image
ImageSpecInit ==
    /\ ImageInit
    /\ PdfIdle
    /\ IngestIdle
    /\ BatchIdle
    /\ AdminIdle
    /\ PermIdle
    /\ AppIdle
    /\ SearchIdle
    /\ RerankIdle
    /\ index = {}
    /\ fillerCount = 0

ImageNext ==
    ProcessImageCall /\ UNCHANGED <<appVars, indexVars, perm, search, rerank, pdf, ingest, batch, admin>>

SpecImage == ImageSpecInit /\ [][ImageNext]_vars

\* process_pdf
PdfSpecInit ==
    /\ PdfInit
    /\ ImageIdle
    /\ IngestIdle
    /\ BatchIdle
    /\ AdminIdle
    /\ PermIdle
    /\ AppIdle
    /\ SearchIdle
    /\ RerankIdle
    /\ index = {}
    /\ fillerCount = 0

PdfNext ==
    ProcessPdfCall /\ UNCHANGED <<appVars, perm, search, rerank, img, ingest, batch, admin>>

SpecPdf == PdfSpecInit /\ [][PdfNext]_vars

\* process_file
IngestSpecInit ==
    /\ IngestInit
    /\ ImageIdle
    /\ PdfIdle
    /\ BatchIdle
    /\ AdminIdle
    /\ PermIdle
    /\ AppIdle
    /\ SearchIdle
    /\ RerankIdle
    /\ index = {}
    /\ fillerCount = 0

IngestNext ==
    \/ ProcessFileCall /\ UNCHANGED <<appVars, perm, search, rerank, img, pdf, batch, admin>>
    \/ ProcessMetadataFileCall /\ UNCHANGED <<appVars, perm, search, rerank, img, pdf, batch, admin>>

SpecIngest == IngestSpecInit /\ [][IngestNext]_vars

\* process_all_files
BatchSpecInit ==
    /\ BatchInit
    /\ ImageIdle
    /\ PdfIdle
    /\ IngestIdle
    /\ AdminIdle
    /\ PermIdle
    /\ AppIdle
    /\ SearchIdle
    /\ RerankIdle
    /\ index = {}
    /\ fillerCount = 0

BatchNext ==
    ProcessAllFilesCall /\ UNCHANGED <<appVars, perm, search, rerank, img, pdf, ingest, admin>>

SpecBatch == BatchSpecInit /\ [][BatchNext]_vars

\* the OpenSearchManager operations
AdminSpecInit ==
    /\ AdminInit
    /\ ImageIdle
    /\ PdfIdle
    /\ IngestIdle
    /\ BatchIdle
    /\ PermIdle
    /\ AppIdle
    /\ SearchIdle
    /\ RerankIdle
    /\ index = {}
    /\ fillerCount = 0

AdminNext ==
    /\ \/ CreateIndexCall
       \/ DeleteIndexCall
       \/ IndexDocumentCall
       \/ BulkIndexDocumentsCall
       \/ ReadIndexCall
    /\ UNCHANGED <<appVars, indexVars, perm, search, rerank, img, pdf, ingest, batch>>

SpecAdmin == AdminSpecInit /\ [][AdminNext]_vars

\* rerank_results
RerankSpecInit ==
    /\ RerankInit
    /\ ParserIdle
    /\ PermIdle
    /\ AppIdle
    /\ SearchIdle
    /\ index = {}
    /\ fillerCount = 0

RerankNext == RerankResultsCall /\ UNCHANGED <<appVars, indexVars, perm, search, img, pdf, ingest, batch, admin>>

SpecRerank == RerankSpecInit /\ [][RerankNext]_vars

\* the front end over a populated index
AppInit ==
    /\ AppIdle
    /\ PermIdle
    /\ SearchIdle
    /\ RerankIdle
    /\ ParserIdle
    /\ index = NamedDocs
    /\ fillerCount = 0

AppNext ==
    \/ LoginSubmit
    \/ Logout
    \/ Search
    \/ AddDocumentPermission
    \/ RemoveDocumentPermission

SpecApp == AppInit /\ [][AppNext]_vars

\* get_user_permissions
PermSpecInit ==
    /\ PermInit
    /\ AppIdle
    /\ SearchIdle
    /\ RerankIdle
    /\ ParserIdle
    /\ index = {}
    /\ fillerCount = 0

PermNext == GetUserPermissionsCall /\ UNCHANGED <<appVars, indexVars, search, rerank, img, pdf, ingest, batch, admin>>

SpecPerm == PermSpecInit /\ [][PermNext]_vars

\* combined_search
SearchSpecInit ==
    /\ SearchInit
    /\ PermIdle
    /\ RerankIdle
    /\ ParserIdle
    /\ authenticated = TRUE
    /\ username = "alice"
    /\ access_token = "mock-access-token"
    /\ refresh_token = "mock-refresh-token"
    /\ grants = [k \in AppKeys |-> {}]
    /\ render = [LoginPage EXCEPT !.page = "main"]

SearchNext == CombinedSearchCall /\ UNCHANGED <<appVars, indexVars, perm, rerank, img, pdf, ingest, batch, admin>>

SpecSearch == SearchSpecInit /\ [][SearchNext]_vars

(***************************************************************************)
(* Properties.                                                             *)
(***************************************************************************)
UserHasGrant(g, u) == \E k \in AppKeys : u \in g[k]

\* C1 (as claimed; checked under SpecApp): a user whom no grant of the store
\* lists, or whose lookup could not read the store, logs in with an empty
\* authorized set, and a query made with an empty authorized set shows no text
\* result and no image result.
C1_NoGrantNoAccess ==
    [][ /\ ( /\ ~authenticated
             /\ authenticated'
             /\ (~UserHasGrant(grants, username') \/ render'.lookup = "error") )
           => authorized_docs' = <<>>
        /\ ( /\ authenticated
             /\ authorized_docs = <<>>
             /\ render'.page \in {"no_access", "results"} )
           => (render'.out.text = <<>> /\ render'.out.image = <<>>)
      ]_vars

KeyMatches(source, docs) == \E key \in Range(docs) : IsSubstring(key, source)

\* C2 (as claimed; checked under SpecSearch): for a non-wildcard authorized
\* set, the filter of the search is the list of the indexed sources that
\* contain an authorized key, each once and in aggregation order, and no
\* result has a source that contains none of the authorized keys.
C2_FilterIsMatchingSources ==
    (search.pc = "done" /\ search.out.searched /\ authorized_docs # <<Star>>)
    => /\ search.out.filter =
              SelectSeq(Buckets(index, fillerCount),
                        LAMBDA s : KeyMatches(s, authorized_docs))
       /\ \A d \in Range(search.out.text) \cup Range(search.out.image) :
              KeyMatches(d.source, authorized_docs)

\* C3 (as claimed; checked under SpecSearch): with the authorized set ["*"]
\* the filter of the search holds every distinct source of the index.
C3_WildcardAllSources ==
    (search.pc = "done" /\ search.out.searched /\ authorized_docs = <<Star>>)
    => Range(search.out.filter) = DistinctSources(index, fillerCount)

\* C4 (checked under SpecSearch): with an empty authorized set combined_search
\* returns ([], []) and sends nothing to the index store, neither the source
\* aggregation nor a search.
C4_NoAccessShortCircuit ==
    (search.pc = "done" /\ authorized_docs = <<>>)
    => /\ search.out.text = <<>>
       /\ search.out.image = <<>>
       /\ search.out.requests = <<>>

\* C4 witness: the call was made with an empty authorized set on a populated,
\* reachable index.
C4_Witness ==
    /\ search.pc = "done"
    /\ authorized_docs = <<>>
    /\ index = NamedDocs
    /\ search.mode = "ok"

\* no source of the index is permitted to the session, or the aggregation
\* gave nothing
NoPermittedSource ==
    \/ search.mode \in {"no_client", "agg_raises"}
    \/ authorized_docs = <<Star>> /\ DistinctSources(index, fillerCount) = {}
    \/ /\ authorized_docs # <<Star>>
       /\ \A s \in DistinctSources(index, fillerCount) : ~KeyMatches(s, authorized_docs)

\* C20 (checked under SpecSearch): combined_search sends a search to the
\* index store only with a source filter that names at least one source; when
\* no indexed source is permitted, or the aggregation fails and yields
\* nothing, it returns ([], []) and no search request has been sent.
C20_NoSearchWithoutFilter ==
    search.pc = "done" =>
        /\ ("search" \in Range(search.out.requests) \/ search.out.searched)
              => (search.out.searched /\ search.out.filter # <<>>)
        /\ NoPermittedSource
              => /\ search.out.text = <<>>
                 /\ search.out.image = <<>>
                 /\ "search" \notin Range(search.out.requests)

\* C20 witness: a session whose only key is contained in no source of a
\* populated index; the aggregation was asked and succeeded, no search was
\* sent.
C20_Witness ==
    /\ search.pc = "done"
    /\ search.mode = "ok"
    /\ authorized_docs # <<>>
    /\ index = NamedDocs
    /\ NoPermittedSource
    /\ search.out.requests = <<"aggregate">>

C26_UnauthenticatedSessionIsEmpty ==
    ~authenticated =>
        /\ username = None
        /\ access_token = None
        /\ refresh_token = None
        /\ authorized_docs = <<>>
        /\ render.page \in {"login", "login_error"}

\* C26 witness: the session is unauthenticated on the login form while the
\* grant store lists both users, so that a login before would have filled
\* authorized_docs.
C26_Witness ==
    /\ ~authenticated
    /\ render.page = "login"
    /\ grants[KeyA] = AppUsers
    /\ grants[Star] = AppUsers

\* C27 (checked under SpecApp): between a login and the next logout the
\* authorized set of the session does not change, whatever is done to the
\* grant store, and a query of the session is filtered with that set: it is
\* refused when the set is empty, and otherwise every source of its filter
\* and of its results is permitted by the set.
C27_AuthorizedSetFixedAtLogin ==
    [][ /\ (authenticated /\ authenticated') => authorized_docs' = authorized_docs
        /\ (authenticated /\ render' # render
               /\ render'.page \in {"no_access", "results"}) =>
              /\ authorized_docs = <<>> <=> render'.page = "no_access"
              /\ \A s \in Range(render'.out.filter)
                          \cup {d.source : d \in Range(render'.out.text)
                                                   \cup Range(render'.out.image)} :
                    authorized_docs = <<Star>> \/ KeyMatches(s, authorized_docs)
      ]_vars

\* C27 witness: alice, whose grants were all revoked after her login, is
\* shown results filtered with the set of her login.
C27_Witness ==
    /\ authenticated
    /\ username = "alice"
    /\ authorized_docs = <<KeyA>>
    /\ grants = [k \in AppKeys |-> {}]
    /\ render.page = "results"
    /\ render.out.filter # <<>>

\* C5 (as claimed; checked under SpecRerank): when the reranker call or a later
\* step of rerank_results raises, the results come back in the order and with
\* the scores they had before the call.
C5_RerankFailSoft ==
    (rerank.pc = "done" /\ rerank.raised) => rerank.ret = rerank.results

\* rerank_results ran to its last line: the reranker answered and no step
\* raised
RerankSucceeded == rerank.pc = "done" /\ rerank.called /\ ~rerank.raised

\* the ids the reranker returned
ReturnedIds == {rerank.response.passages[j].id : j \in 1..Len(rerank.response.passages)}

\* the scores the reranker's answer gives for id
ReturnedScores(id) ==
    {rerank.response.passages[j].score :
        j \in {k \in 1..Len(rerank.response.passages) : rerank.response.passages[k].id = id}}

\* C21 (checked under SpecRerank): after a rerank that succeeded, a result
\* whose id the reranker returned carries a score the reranker gave for that
\* id, a result whose id it did not return has the score it came with, and
\* the returned list is in descending order of score.
C21_RerankScoresAndOrder ==
    RerankSucceeded =>
        /\ \A i \in 1..Len(rerank.ret) :
              IF rerank.ret[i].id \in ReturnedIds
              THEN rerank.ret[i].score \in ReturnedScores(rerank.ret[i].id)
              ELSE rerank.ret[i] \in Range(rerank.results)
        /\ \A i, j \in 1..Len(rerank.ret) :
              i < j => rerank.ret[i].score.v >= rerank.ret[j].score.v

\* C21 witness: a rerank that succeeded on three results of which the last
\* received a higher score and moved to the front, while another was not
\* returned.
C21_Witness ==
    /\ RerankSucceeded
    /\ Len(rerank.results) = 3
    /\ rerank.ret[1].id = rerank.results[3].id
    /\ rerank.ret[1].score # rerank.results[3].score
    /\ \E i \in 2..3 : rerank.ret[i].id \notin ReturnedIds

\* the place of the result with this id in a list of results
PlaceOf(id, results) == CHOOSE i \in 1..Len(results) : results[i].id = id

\* C28 (checked under SpecRerank): rerank_results returns the
\* results it was given, each once, whatever the reranker does; results that
\* end with equal scores are in the order they came in; an empty input
\* returns an empty list and the reranker is not called.
C28_RerankReturnsPermutation ==
    rerank.pc = "done" =>
        /\ Len(rerank.ret) = Len(rerank.results)
        /\ \A i \in 1..Len(rerank.results) :
              Cardinality({j \in 1..Len(rerank.ret) :
                              rerank.ret[j].id = rerank.results[i].id}) = 1
        /\ \A i, j \in 1..Len(rerank.ret) :
              (i < j /\ rerank.ret[i].score = rerank.ret[j].score)
              => PlaceOf(rerank.ret[i].id, rerank.results)
                    < PlaceOf(rerank.ret[j].id, rerank.results)
        /\ rerank.results = <<>> => (rerank.ret = <<>> /\ ~rerank.called)

\* C28 witness: a rerank that succeeded on three results, with an answer
\* that names an unknown id and not all of the results; two results end
\* with equal scores and the list came back in another order.
C28_Witness ==
    /\ RerankSucceeded
    /\ Len(rerank.results) = 3
    /\ 9 \in ReturnedIds
    /\ \E i \in 1..3 : rerank.results[i].id \notin ReturnedIds
    /\ rerank.ret # rerank.results
    /\ \E i, j \in 1..3 : i < j /\ rerank.ret[i].score = rerank.ret[j].score

\* the pixels of which at least one channel is below 240
NonNearWhite(image) ==
    {i \in 1..Len(image.pixels) : \E c \in 1..Len(image.pixels[i]) : image.pixels[i][c] < 240}

\* C7 (checked under SpecImage): an image of which fewer than 5% of the pixels
\* are non-near-white yields no asset, no call of the description model and no
\* upload, whatever its width and height.
C7_BlankNeverExtracted ==
    (img.pc = "done" /\ img.image.opens
       /\ Cardinality(NonNearWhite(img.image)) * 20 < img.image.width * img.image.height)
    => /\ img.out.asset = <<>>
       /\ ~img.out.described
       /\ img.out.puts = <<>>

\* C7 witness: a greyscale image of the minimum size or more with one dark
\* pixel in 21 went through _process_image while both services worked.
C7_Witness ==
    /\ img.pc = "done"
    /\ img.image.opens
    /\ img.image.ndim = 2
    /\ img.image.width >= IMAGE_MIN_WIDTH
    /\ img.image.height >= IMAGE_MIN_HEIGHT
    /\ Cardinality(NonNearWhite(img.image)) = 1
    /\ img.image.width * img.image.height = 21
    /\ img.env = [describe |-> "ok", upload |-> "ok"]
    /\ img.out.asset = <<>>

\* _extract_images_from_pdf was called by the finished process_pdf call
ExtractionRan == pdf.pc = "done" /\ pdf.env.download = "ok" /\ pdf.file.opens

\* where a byte sequence is embedded: <<page, ordinal>>, in reading order
Occurrences(b) ==
    UNION { { <<p, i>> : i \in {j \in 1..Len(pdf.file.pages[p].images) :
                                       pdf.file.pages[p].images[j] = b} } :
            p \in 1..Len(pdf.file.pages) }

EmbeddedBytes == {b \in ImageBytes : Occurrences(b) # {}}

\* the extracted assets that were made from byte sequence b
AssetsFor(b) ==
    {k \in 1..Len(pdf.out.images) :
        <<pdf.out.images[k].page_number, pdf.out.images[k].index>> \in Occurrences(b)}

Before(pos, other) ==
    pos[1] < other[1] \/ (pos[1] = other[1] /\ pos[2] < other[2])

\* some occurrence of c precedes every occurrence of b
EmbeddedBefore(c, b) ==
    \E pc \in Occurrences(c) : \A pb \in Occurrences(b) : Before(pc, pb)

\* b is an image that _process_image keeps
Survives(b) ==
    /\ Decodes(b)
    /\ ImageOf(b).width >= IMAGE_MIN_WIDTH
    /\ ImageOf(b).height >= IMAGE_MIN_HEIGHT
    /\ Cardinality(NonNearWhite(ImageOf(b))) * 20 >= ImageOf(b).width * ImageOf(b).height

\* how many times key is in the sequence of keys
TimesIn(key, keys) == Cardinality({i \in 1..Len(keys) : keys[i] = key})

\* the keys that reached the bucket in the process_pdf call
StoredKeys ==
    Concat([i \in 1..Len(pdf.out.outcomes) |-> pdf.out.outcomes[i].stored])
    \o Concat([i \in 1..Len(pdf.out.tables) |->
                  UploadFile(pdf.out.tables[i].s3_path, pdf.env)
                  \o UploadFile(<<"metadata/tables/", pdf.out.tables[i].id>>, pdf.env)])

\* C24 (as claimed; checked under SpecPdf): every image and table asset in
\* the result of process_pdf reached the bucket exactly once, its file at
\* its s3_path and its sidecar under the metadata prefix.
C24_AssetsPersistedOnce ==
    pdf.pc = "done" =>
        /\ \A i \in 1..Len(pdf.out.images) :
              /\ TimesIn(pdf.out.images[i].s3_path, StoredKeys) = 1
              /\ TimesIn(<<"metadata/images/", pdf.out.images[i].id>>, StoredKeys) = 1
        /\ \A i \in 1..Len(pdf.out.tables) :
              /\ TimesIn(pdf.out.tables[i].s3_path, StoredKeys) = 1
              /\ TimesIn(<<"metadata/tables/", pdf.out.tables[i].id>>, StoredKeys) = 1

\* the embedded images of the listed file f, as <<page, ordinal>>
ImagesIn(f) ==
    UNION { {<<p, k>> : k \in 1..Len(f.pdf.pages[p].images)} : p \in 1..Len(f.pdf.pages) }

\* occurrence o of f is read, is the first of its content in f, and passes
\* the size and blank tests
FirstOfItsContent(f, o) ==
    LET bytes(x) == f.pdf.pages[x[1]].images[x[2]]
        earlier == {x \in ImagesIn(f) : x[1] < o[1] \/ (x[1] = o[1] /\ x[2] < o[2])}
    IN  /\ \A x \in earlier : Decodes(bytes(x)) /\ Hash(bytes(x)) # Hash(bytes(o))
        /\ Survives(bytes(o))

\* the PDF files of the listing that process_all_files read
PdfsRead ==
    {i \in 1..Len(batch.results) :
        /\ batch.results[i].status = "success"
        /\ ListS3Files(batch.contents, batch.list_raises, batch.supported)[i].ext = "pdf"}

\* C22 (checked under SpecBatch): in a run of process_all_files, every
\* embedded image that is the first of its content within its own document
\* and passes the filter yields exactly one asset of that document, whatever
\* documents were processed before it: image dedup does not reach across
\* documents.
C22_DedupPerDocument ==
    batch.pc = "done" =>
        \A i \in PdfsRead :
            LET f == ListS3Files(batch.contents, batch.list_raises, batch.supported)[i]
            IN  \A o \in ImagesIn(f) :
                   FirstOfItsContent(f, o) =>
                      Cardinality({k \in 1..Len(batch.results[i].images) :
                                      /\ batch.results[i].images[k].page_number = o[1]
                                      /\ batch.results[i].images[k].index = o[2]}) = 1

\* C22 witness: two PDF documents that hold the same image were processed
\* one after the other and the second has its asset.
C22_Witness ==
    /\ batch.pc = "done"
    /\ PdfsRead = {1, 2}
    /\ \E o1 \in ImagesIn(batch.contents[1]), o2 \in ImagesIn(batch.contents[2]) :
          batch.contents[1].pdf.pages[o1[1]].images[o1[2]]
             = batch.contents[2].pdf.pages[o2[1]].images[o2[2]]
    /\ batch.results[1].images # <<>>
    /\ batch.results[2].images # <<>>

\* the files of the listing that are no directory markers and have a
\* supported extension, in listing order
SupportedListed ==
    SelectSeq(batch.contents,
              LAMBDA f : f.key[Len(f.key)] # 47 /\ f.ext \in batch.supported)

\* C30 (checked under SpecBatch): process_all_files returns one result for
\* each supported file of the listing, in listing order, each with the key
\* of its file and a status among success, failed and unsupported_format; a
\* file that failed does not keep the files after it from being processed;
\* when the listing itself fails the run returns an empty list.
C30_OneResultPerListedFile ==
    batch.pc = "done" =>
        IF batch.list_raises THEN batch.results = <<>>
        ELSE /\ Len(batch.results) = Len(SupportedListed)
             /\ \A i \in 1..Len(SupportedListed) :
                   /\ batch.results[i].original_key = SupportedListed[i].key
                   /\ batch.results[i].status
                         \in {"success", "failed", "unsupported_format"}
                   /\ batch.results[i] = ProcessFile(SupportedListed[i], batch.env)

\* C30 witness: of two listed files the first failed and the second was
\* processed with success.
C30_Witness ==
    /\ batch.pc = "done"
    /\ Len(batch.results) = 2
    /\ batch.results[1].status = "failed"
    /\ batch.results[2].status = "success"
    /\ batch.env = AllOk

C18_CorruptImageSkippedAlone ==
    (ExtractionRan /\ \E c \in EmbeddedBytes : ~Decodes(c)) =>
        \A b \in EmbeddedBytes :
            (Survives(b)
             /\ \A c \in EmbeddedBytes \ {b} :
                   EmbeddedBefore(c, b) => Hash(c) # Hash(b))
            => Cardinality(AssetsFor(b)) = 1

\* the tables of page q that pass the size test
SurvivingTables(q) ==
    {i \in 1..Len(pdf.file.pages[q].tables) :
        /\ pdf.file.pages[q].tables[i].rows >= TABLE_MIN_ROWS
        /\ pdf.file.pages[q].tables[i].cols >= TABLE_MIN_COLS}

\* the table extraction of page p throws: find_tables raises, or the
\* handling of a table that passed the size test does
TableExtractionThrows(p) ==
    \/ pdf.file.pages[p].findRaises
    \/ \E i \in SurvivingTables(p) : pdf.file.pages[p].tables[i].raises

PdfPageNumbers == 1..Len(pdf.file.pages)

\* the surviving tables of page q with no throw at them or before them
CompletedTables(q) ==
    {i \in SurvivingTables(q) :
        \A j \in SurvivingTables(q) : j <= i => ~pdf.file.pages[q].tables[j].raises}

\* the tables in the result, each as <<page, ordinal>>
TablePositions ==
    {<<pdf.out.tables[k].page_number, pdf.out.tables[k].table_index>> :
        k \in 1..Len(pdf.out.tables)}

\* the text of every page is in the reconstructed document and in a chunk,
\* and the count reported is the number of chunks
TextCovered ==
    /\ \A q \in PdfPageNumbers :
          pdf.file.pages[q].text > 0 =>
              /\ \E i \in 1..Len(pdf.out.text_content) :
                    /\ pdf.out.text_content[i].kind = "text"
                    /\ pdf.out.text_content[i].page = q
              /\ \E c \in 1..Len(pdf.out.chunk_list) :
                    \E i \in 1..Len(pdf.out.chunk_list[c]) :
                        /\ pdf.out.chunk_list[c][i].kind = "text"
                        /\ pdf.out.chunk_list[c][i].page = q
    /\ pdf.out.chunks = Len(pdf.out.chunk_list)

\* C8 as stated (checked under SpecPdf): when the table extraction of some
\* page throws, process_pdf returns status "success", its tables are exactly
\* the surviving tables of the pages whose extraction did not throw, and the
\* reconstructed text and the chunks cover the text of all pages.
C8_NoneFromThrowingPage ==
    (ExtractionRan /\ \E p \in PdfPageNumbers : TableExtractionThrows(p)) =>
        /\ pdf.out.status = "success"
        /\ TablePositions =
              UNION { { <<q, i>> : i \in SurvivingTables(q) } :
                      q \in {p \in PdfPageNumbers : ~TableExtractionThrows(p)} }
        /\ Cardinality(TablePositions) = Len(pdf.out.tables)
        /\ TextCovered

\* C8 amended (checked under SpecPdf): when the table extraction of some page
\* throws, process_pdf returns status "success", its tables are the surviving
\* tables of the other pages together with the surviving tables of a throwing
\* page that were completed before the throw, and the reconstructed text and
\* the chunks cover the text of all pages.
C8_TablesBeforeTheThrow ==
    (ExtractionRan /\ \E p \in PdfPageNumbers : TableExtractionThrows(p)) =>
        /\ pdf.out.status = "success"
        /\ TablePositions =
              UNION { { <<q, i>> : i \in CompletedTables(q) } :
                      q \in {p \in PdfPageNumbers : ~pdf.file.pages[p].findRaises} }
        /\ Cardinality(TablePositions) = Len(pdf.out.tables)
        /\ TextCovered

\* C8 witness: one page threw at its second table after its first was
\* completed, another page gave its table, and the call succeeded.
C8_Witness ==
    /\ ExtractionRan
    /\ Len(pdf.file.pages) = 2
    /\ \E p \in PdfPageNumbers :
          /\ TableExtractionThrows(p)
          /\ <<p, 1>> \in TablePositions
          /\ \E q \in PdfPageNumbers \ {p} :
                ~TableExtractionThrows(q) /\ <<q, 1>> \in TablePositions
    /\ pdf.out.status = "success"
    /\ pdf.out.chunks > 0

\* C11 (checked under SpecPerm): when the scan of some page raises, the call
\* ends by returning the empty list: nothing propagates and the grants of
\* the pages read before the failure are not returned.
C11_UnreachableStoreNoAccess ==
    (perm.pc = "done" /\ perm.failAt # 0) => perm.ret = <<>>

\* C11 witness: the second scan raised after the first page had brought a
\* grant that lists the user, and the call returned the empty list.
C11_Witness ==
    /\ perm.pc = "done"
    /\ perm.failAt = 2
    /\ \E i \in 1..Len(perm.pages[1]) :
          /\ ~ItemRaises(perm.pages[1][i])
          /\ ItemConsidered(perm.pages[1][i])
          /\ ItemListsUser(perm.pages[1][i], perm.username)
    /\ \A i \in 1..Len(perm.pages[1]) : ~ItemRaises(perm.pages[1][i])
    /\ perm.ret = <<>>

\* process_file has run on a file that one of the three processors takes
Ingested ==
    /\ ingest.pc = "ready"
    /\ ingest.runs >= 1
    /\ ingest.file.ext \in {"pdf", "txt", "csv", "jpg", "jpeg", "png"}

\* an exception reaches the except branch of the processor: the PDF does not
\* open, the text file is not UTF-8
ExceptionEscapes ==
    \/ ingest.file.ext = "pdf" /\ ~ingest.file.pdf.opens
    \/ ingest.file.ext \in {"txt", "csv"} /\ ~ingest.file.text.decodes

\* the file is an image that is unreadable, too small or blank
ImageRejected ==
    /\ ingest.file.ext \in {"jpg", "jpeg", "png"}
    /\ \/ ~ingest.file.image.opens
       \/ ingest.file.image.width < IMAGE_MIN_WIDTH
       \/ ingest.file.image.height < IMAGE_MIN_HEIGHT
       \/ Cardinality(NonNearWhite(ingest.file.image)) * 20
             < ingest.file.image.width * ingest.file.image.height

\* C12 as stated (checked under SpecIngest): a result has status "failed"
\* exactly when the fetch failed or an exception escaped processing, and
\* status "success" otherwise.
C12_FailedOnlyOnFetchOrException ==
    Ingested =>
        /\ ingest.out.status \in {"failed", "success"}
        /\ ingest.out.status = "failed"
              <=> (ingest.env.download = "fails" \/ ExceptionEscapes)

\* C12 amended (checked under SpecIngest): a result has status "failed"
\* exactly when the fetch failed, an exception escaped processing, or the
\* file is an image that _process_image rejects, and status "success"
\* otherwise.
C12_FailedAlsoOnRejectedImage ==
    Ingested =>
        /\ ingest.out.status \in {"failed", "success"}
        /\ ingest.out.status = "failed"
              <=> (ingest.env.download = "fails" \/ ExceptionEscapes \/ ImageRejected)

\* C12 witness: a blank image file of sufficient size was fetched, nothing
\* raised, and the result is "failed".
C12_Witness ==
    /\ Ingested
    /\ ingest.env = AllOk
    /\ ingest.file.ext = "jpg"
    /\ ingest.file.image.opens
    /\ ingest.file.image.width >= IMAGE_MIN_WIDTH
    /\ ingest.file.image.height >= IMAGE_MIN_HEIGHT
    /\ NonNearWhite(ingest.file.image) = {}
    /\ ingest.out.status = "failed"
    /\ ingest.out.images = <<>>

\* the last run of process_file reached the loop of
\* _index_chunks_to_opensearch
IndexLoopRan ==
    /\ ingest.pc = "ready"
    /\ ingest.runs >= 1
    /\ ingest.env.indexer = "ok"
    /\ ingest.out.status = "success"

ChunkOrdinals == 0..(Len(ingest.out.chunk_list) - 1)

\* the chunks whose embedding fails or whose write fails or is rejected
FailingChunks ==
    IF ingest.env.strict_mapping /\ ingest.env.embedding_dim # 1536
    THEN ChunkOrdinals
    ELSE ingest.env.embed_fails \cup ingest.env.write_fails

\* C13 (checked under SpecIngest): when the embedding or the write of some
\* chunks fails, an embedding is asked for every chunk in order, exactly the
\* chunks that did not fail are written and are in the index, and the batch
\* returns True.
C13_ChunkFailureSkipsOnlyThatChunk ==
    IndexLoopRan =>
        /\ ingest.out.indexed.ret = TRUE
        /\ ingest.out.indexed.attempted =
              [k \in 1..Len(ingest.out.chunk_list) |-> k - 1]
        /\ {ingest.out.written[k].chunk_id[2] : k \in 1..Len(ingest.out.written)}
              = ChunkOrdinals \ FailingChunks
        /\ \A k \in 1..Len(ingest.out.written) :
              \E d \in index : d.chunk_id = ingest.out.written[k].chunk_id

\* C13 witness: of three chunks the embedding of the first and the write of
\* the third failed, the second was written, and the batch returned True.
C13_Witness ==
    /\ IndexLoopRan
    /\ ChunkOrdinals = {0, 1, 2}
    /\ ingest.env.embed_fails = {0}
    /\ ingest.env.write_fails = {2}
    /\ Len(ingest.out.written) = 1
    /\ ingest.out.written[1].chunk_id[2] = 1
    /\ ingest.out.indexed.ret = TRUE

C29_ImageDocumentType ==
    (ingest.pc = "ready" /\ ingest.file.ext \in {"jpg", "jpeg", "png"}) =>
        \A d \in index : d.document_type = "image"

\* C14 (checked under SpecIngest): the chunks count of an ingestion result
\* is the number of chunks an embedding was asked for, whatever the state of
\* the index store.
C14_ChunksCountIsAttempted ==
    Ingested => ingest.out.chunks = Len(ingest.out.indexed.attempted)

\* C15 (checked under SpecIngest): however many times the same source file
\* is ingested, the index holds at most one document for each chunk id.
C15_OneDocumentPerChunkId ==
    ingest.pc = "ready" =>
        \A d1, d2 \in index : d1.chunk_id = d2.chunk_id => d1 = d2

\* C16 (checked under SpecIngest): every document of the index has an
\* embedding, and each embedding it has is of the length that the mapping
\* declares for its field (text_embedding 1536, multimodal_embedding 1536;
\* no writer fills image_embedding).
C16_EmbeddingsMatchMapping ==
    ingest.pc = "ready" =>
        \A d \in index :
            /\ d.text_embedding # 0 \/ d.multimodal_embedding # 0
            /\ d.text_embedding \in {0, 1536}
            /\ d.multimodal_embedding \in {0, 1536}

\* the blocks of the reconstructed document that are made for asset a
BlocksOf(kind, a) ==
    {i \in 1..Len(pdf.out.text_content) :
        /\ pdf.out.text_content[i].kind = kind
        /\ pdf.out.text_content[i].ref = a.s3_path}

\* the assets of one kind appear once each, in the block sequence of their
\* page, with description and path, in the order of their ordinals
AssetsPlaced(kind, infos, Ordinal(_)) ==
    /\ \A k \in 1..Len(infos) :
          /\ Cardinality(BlocksOf(kind, infos[k])) = 1
          /\ \A i \in BlocksOf(kind, infos[k]) :
                /\ pdf.out.text_content[i].page = infos[k].page_number
                /\ pdf.out.text_content[i].description = infos[k].description
    /\ \A i \in 1..Len(pdf.out.text_content) :
          pdf.out.text_content[i].kind = kind
          => \E k \in 1..Len(infos) : i \in BlocksOf(kind, infos[k])
    /\ \A k1, k2 \in 1..Len(infos) :
          (infos[k1].page_number = infos[k2].page_number
           /\ Ordinal(infos[k1]) < Ordinal(infos[k2]))
          => \A i \in BlocksOf(kind, infos[k1]), j \in BlocksOf(kind, infos[k2]) : i < j

IsGrantFor(item, u) ==
    /\ item.hasDoc /\ item.docS /\ item.hasUsers /\ item.usersL
    /\ \E i \in 1..Len(item.users) : item.users[i] = [hasS |-> TRUE, S |-> u]

\* a record whose doc or users attribute has not the expected shape
Unreadable(item) ==
    item.hasDoc /\ item.hasUsers /\ ~(item.docS /\ item.usersL)

\* what C10 says of a call on these items
PermissionsAsGranted(ret, items, u) ==
    LET listing == {i \in 1..Len(items) : IsGrantFor(items[i], u)}
    IN  /\ ret = <<Star>> <=> (\E i \in listing : items[i].doc = Star)
        /\ (\A i \in listing : items[i].doc # Star)
              => /\ Range(ret) = {items[i].doc : i \in listing}
                 /\ Len(ret) = Cardinality(listing)
        /\ (Star \in Range(ret)) => ret = <<Star>>

\* C17 (checked under SpecPerm): when every page is scanned and some record
\* is unreadable, that record alone is skipped: the key of every readable
\* grant that lists the user is returned, or the wildcard alone.
C17_UnreadableRecordSkipped ==
    (/\ perm.pc = "done"
     /\ perm.failAt = 0
     /\ \E i \in 1..Len(Concat(perm.pages)) : Unreadable(Concat(perm.pages)[i]))
    => \A i \in 1..Len(Concat(perm.pages)) :
          IsGrantFor(Concat(perm.pages)[i], perm.username)
          => \/ perm.ret = <<Star>>
             \/ Concat(perm.pages)[i].doc \in Range(perm.ret)

====
